---- MODULE Spec2Model ----
(***************************************************************************)
(* Verification model of the chat-with-mysql repository: the query         *)
(* validators, the schema/result sanitizers and the question-handling      *)
(* pipelines of the cloud-only, local-model, hybrid and PostgreSQL         *)
(* variants, and the command-line connection tester.                       *)
(*                                                                         *)
(* Text is a sequence of one-character strings, so that substring tests,   *)
(* case conversion and the regular-expression substitutions are computed   *)
(* character by character the way the Python code computes them.           *)
(***************************************************************************)
EXTENDS Integers, Sequences, FiniteSets, TLC

VARIABLES
    sql,        \* validator specification: the query text handed to a validator
    verdict,    \* validator specification: which validator ran last, and its result
    schema,     \* sanitizer specification: the schema text handed to a sanitizer
    sanitized,  \* sanitizer specification: which sanitizer ran last, and its result
    app,        \* application specification: which Streamlit script runs
    env,        \* what the script finds around it: the database's table info, the secrets
    session,    \* st.session_state
    pc,         \* where the script run is: "idle" between runs, else the next step
    call,       \* arguments and locals of the question being answered
    rerun,      \* cloud-only and hybrid scripts: the sidebar's widgets in the last run
    log,        \* what answering the last question did: LLM calls, validations, db.run
    tester      \* test_db_connection.py: where main() is, its connection and its last input

validatorVars == <<sql, verdict>>
sanitizerVars == <<schema, sanitized>>
appVars == <<app, env, session, pc, call, rerun, log>>

vars == <<sql, verdict, schema, sanitized, app, env, session, pc, call, rerun, log, tester>>

-----------------------------------------------------------------------------
(* Characters and Python's str methods (ASCII)                             *)

Lowers == <<"a","b","c","d","e","f","g","h","i","j","k","l","m","n","o","p","q","r","s","t","u","v","w","x","y","z">>
Uppers == <<"A","B","C","D","E","F","G","H","I","J","K","L","M","N","O","P","Q","R","S","T","U","V","W","X","Y","Z">>
Digits == {"0","1","2","3","4","5","6","7","8","9"}

AlphaLen == Len(Lowers)

LowerSet == {Lowers[i] : i \in 1..AlphaLen}
UpperSet == {Uppers[i] : i \in 1..AlphaLen}

UpperOf == [c \in LowerSet |-> Uppers[CHOOSE i \in 1..AlphaLen : Lowers[i] = c]]
LowerOf == [c \in UpperSet |-> Lowers[CHOOSE i \in 1..AlphaLen : Uppers[i] = c]]

\* str.upper() / str.lower() on one character
ToUpper(c) == IF c \in LowerSet THEN UpperOf[c] ELSE c
ToLower(c) == IF c \in UpperSet THEN LowerOf[c] ELSE c

\* str.upper(), str.lower()
Upper(s) == [i \in 1..Len(s) |-> ToUpper(s[i])]
Lower(s) == [i \in 1..Len(s) |-> ToLower(s[i])]

\* The backquote character, which a TLA+ string cannot hold
Backtick == "backquote"

\* Python's whitespace (str.strip, \s)
Whitespace == {" ", "\n", "\t", "\r"}

\* Python's `sub in s`
Contains(s, sub) ==
    \E i \in 1..(Len(s) - Len(sub) + 1) : SubSeq(s, i, i + Len(sub) - 1) = sub

\* str.startswith, str.endswith
StartsWith(s, p) == Len(p) <= Len(s) /\ SubSeq(s, 1, Len(p)) = p
EndsWith(s, p) == Len(p) <= Len(s) /\ SubSeq(s, Len(s) - Len(p) + 1, Len(s)) = p

\* str.strip()
Strip(s) ==
    LET keep == {i \in 1..Len(s) : s[i] \notin Whitespace}
    IN  IF keep = {} THEN <<>>
        ELSE LET lo == CHOOSE i \in keep : \A j \in keep : i <= j
                 hi == CHOOSE i \in keep : \A j \in keep : i >= j
             IN  SubSeq(s, lo, hi)

\* concatenation of a sequence of texts
RECURSIVE Flatten(_)
Flatten(ts) == IF ts = <<>> THEN <<>> ELSE Head(ts) \o Flatten(Tail(ts))

\* the elements of a sequence
Range(f) == {f[i] : i \in DOMAIN f}

-----------------------------------------------------------------------------
(* Python's re module, as far as the patterns of the repository need it.   *)
(* Every pattern of the repository is a concatenation of items, each a     *)
(* literal text, a character class with a greedy repetition {lo,hi}, or    *)
(* the assertion \b.  A pattern is the sequence of its items; it is        *)
(* matched by backtracking, each repetition trying its longest run first,  *)
(* as Python's matcher does.                                               *)

WordChars == LowerSet \cup UpperSet \cup Digits \cup {"_"}

Unbounded == 0 - 1

\* pattern items
Lit(text) == [t |-> "lit", text |-> text, icase |-> FALSE]      \* a literal text
LitI(text) == [t |-> "lit", text |-> text, icase |-> TRUE]      \* the same under re.IGNORECASE
Cls(S, lo, hi) == [t |-> "cls", neg |-> FALSE, cs |-> S, lo |-> lo, hi |-> hi]   \* [S]{lo,hi}
NCls(S, lo, hi) == [t |-> "cls", neg |-> TRUE, cs |-> S, lo |-> lo, hi |-> hi]   \* [^S]{lo,hi}
WB == [t |-> "wb"]                                               \* \b

Chr(c) == Cls({c}, 1, 1)
OptChr(c) == Cls({c}, 0, 1)

IsWordAt(s, i) == i >= 1 /\ i <= Len(s) /\ s[i] \in WordChars

\* the literal item `it` occurs in s at position i
LitAt(it, s, i) ==
    /\ i + Len(it.text) - 1 <= Len(s)
    /\ \A j \in 1..Len(it.text) :
          IF it.icase THEN ToLower(s[i + j - 1]) = ToLower(it.text[j])
          ELSE s[i + j - 1] = it.text[j]

\* how many characters from position i on the class item `it` can take
RunLen(it, s, i) ==
    LET last == IF it.hi = Unbounded \/ i + it.hi - 1 > Len(s) THEN Len(s) ELSE i + it.hi - 1
        stops == {j \in i..last : (s[j] \in it.cs) = it.neg}
        stop == IF stops = {} THEN last + 1
                ELSE CHOOSE j \in stops : \A k \in stops : j <= k
    IN  stop - i

\* The position after the match of items k.. of `pat` that starts at position
\* i of s (the index of the first character after the match), 0 when there is
\* no match.
RECURSIVE MatchEnd(_, _, _, _)
MatchEnd(pat, k, s, i) ==
    IF k > Len(pat) THEN i
    ELSE LET it == pat[k] IN
         CASE it.t = "lit" -> IF LitAt(it, s, i) THEN MatchEnd(pat, k + 1, s, i + Len(it.text)) ELSE 0
           [] it.t = "wb"  -> IF IsWordAt(s, i - 1) # IsWordAt(s, i) THEN MatchEnd(pat, k + 1, s, i) ELSE 0
           [] it.t = "cls" ->
                LET run == RunLen(it, s, i)
                    rest == [n \in it.lo..run |-> MatchEnd(pat, k + 1, s, i + n)]
                    good == {n \in it.lo..run : rest[n] # 0}
                IN  IF good = {} THEN 0
                    ELSE rest[CHOOSE n \in good : \A m \in good : n >= m]

\* re.sub(pat, repl, s) from position i on; ends[j] is the end of the match
\* that starts at j.  The leftmost match is replaced and the scan goes on
\* after it (no pattern of the repository matches the empty text).
RECURSIVE SubFrom(_, _, _, _)
SubFrom(ends, repl, s, i) ==
    LET starts == {j \in i..Len(s) : ends[j] > j}
    IN  IF starts = {} THEN SubSeq(s, i, Len(s))
        ELSE LET j == CHOOSE a \in starts : \A b \in starts : a <= b
             IN  SubSeq(s, i, j - 1) \o repl \o SubFrom(ends, repl, s, ends[j])

ReSub(pat, repl, s) ==
    SubFrom([j \in 1..Len(s) |-> MatchEnd(pat, 1, s, j)], repl, s, 1)

\* re.search(pat, s) is not None
ReSearch(pat, s) == \E i \in 1..(Len(s) + 1) : MatchEnd(pat, 1, s, i) # 0

\* Sequencing of two statements: `first` is computed to its value, then `rest`
Then(first, rest) == IF first = first THEN rest ELSE rest

-----------------------------------------------------------------------------
(* Query validators                                                        *)

\* secure_app_cloud_only.py, QueryValidator.__init__
cloud_dangerous_operations ==
    << <<"D","R","O","P">>, <<"D","E","L","E","T","E">>, <<"T","R","U","N","C","A","T","E">>,
       <<"A","L","T","E","R">>, <<"C","R","E","A","T","E">>, <<"I","N","S","E","R","T">>,
       <<"U","P","D","A","T","E">> >>

\* secure_app_with_model_selection.py, QueryValidator.__init__
local_dangerous_operations ==
    << <<"D","R","O","P">>, <<"D","E","L","E","T","E">>, <<"T","R","U","N","C","A","T","E">>,
       <<"A","L","T","E","R">>, <<"C","R","E","A","T","E">>, <<"I","N","S","E","R","T">>,
       <<"U","P","D","A","T","E">> >>

\* secure_hybrid_app.py, QueryValidator.__init__
hybrid_dangerous_operations ==
    << <<"D","R","O","P">>, <<"D","E","L","E","T","E">>, <<"T","R","U","N","C","A","T","E">>,
       <<"A","L","T","E","R">>, <<"C","R","E","A","T","E">>, <<"I","N","S","E","R","T">>,
       <<"U","P","D","A","T","E">>, <<"G","R","A","N","T">>, <<"R","E","V","O","K","E">>,
       <<"E","X","E","C">>, <<"E","X","E","C","U","T","E">>, <<"B","A","C","K","U","P">>,
       <<"R","E","S","T","O","R","E">> >>

hybrid_validator_sensitive_tables ==
    << <<"u","s","e","r","s">>, <<"p","a","s","s","w","o","r","d","s">>,
       <<"c","r","e","d","i","t","_","c","a","r","d","s">>, <<"s","s","n">>,
       <<"p","e","r","s","o","n","a","l","_","d","a","t","a">>,
       <<"c","u","s","t","o","m","e","r","s">>, <<"e","m","p","l","o","y","e","e","s">>,
       <<"p","a","t","i","e","n","t","s">>, <<"c","l","i","e","n","t","s">>,
       <<"a","c","c","o","u","n","t","s">> >>

\* secure_app_postgresql.py, QueryValidator.is_safe_query
pg_dangerous_keywords ==
    << <<"D","R","O","P">>, <<"D","E","L","E","T","E">>, <<"U","P","D","A","T","E">>,
       <<"I","N","S","E","R","T">>, <<"T","R","U","N","C","A","T","E">>,
       <<"A","L","T","E","R">>, <<"C","R","E","A","T","E">>, <<"G","R","A","N","T">>,
       <<"R","E","V","O","K","E">>, <<"E","X","E","C","U","T","E">> >>

kwSELECT == <<"S","E","L","E","C","T">>

\* the first index of `list` whose entry occurs in `text`, 0 when none does
\* (the `for x in list: if x in text: return ...` loops)
FirstHit(list, text) ==
    LET hits == {i \in 1..Len(list) : Contains(text, list[i])}
    IN  IF hits = {} THEN 0 ELSE CHOOSE i \in hits : \A j \in hits : i <= j

\* a plausible slip: the test is made on the query as written, not upper-cased
cloud_validate_sql_case_sensitive(q) ==
    FirstHit(cloud_dangerous_operations, q) = 0

\* cloud-only QueryValidator.validate_sql
cloud_validate_sql(q) ==
    LET sql_upper == Upper(q)
    IN  FirstHit(cloud_dangerous_operations, sql_upper) = 0

\* local-model QueryValidator.validate_sql
local_validate_sql(q) ==
    LET sql_upper == Upper(q)
    IN  FirstHit(local_dangerous_operations, sql_upper) = 0

\* hybrid QueryValidator.validate_sql
hybrid_validate_sql(q) ==
    LET sql_upper == Upper(q)
    IN  IF FirstHit(hybrid_dangerous_operations, sql_upper) # 0 THEN FALSE
        ELSE IF FirstHit(hybrid_validator_sensitive_tables, sql_upper) # 0 THEN FALSE
        ELSE TRUE

\* a plausible slip: the SELECT-prefix test is made before the keyword loop
pg_is_safe_query_select_first(q) ==
    LET query_upper == Upper(q)
        k == FirstHit(pg_dangerous_keywords, query_upper)
    IN  IF ~StartsWith(Strip(query_upper), kwSELECT)
        THEN [safe |-> FALSE, reason |-> "only_select", keyword |-> <<>>]
        ELSE IF k # 0
        THEN [safe |-> FALSE, reason |-> "operation_not_allowed", keyword |-> pg_dangerous_keywords[k]]
        ELSE [safe |-> TRUE, reason |-> "query_is_safe", keyword |-> <<>>]

\* PostgreSQL QueryValidator.is_safe_query: (is_safe, message)
pg_is_safe_query(q) ==
    LET query_upper == Upper(q)
        k == FirstHit(pg_dangerous_keywords, query_upper)
    IN  IF k # 0
        THEN [safe |-> FALSE, reason |-> "operation_not_allowed", keyword |-> pg_dangerous_keywords[k]]
        ELSE IF ~StartsWith(Strip(query_upper), kwSELECT)
        THEN [safe |-> FALSE, reason |-> "only_select", keyword |-> <<>>]
        ELSE [safe |-> TRUE, reason |-> "query_is_safe", keyword |-> <<>>]

-----------------------------------------------------------------------------
(* Schema sanitizers                                                       *)

\* secure_hybrid_app.py, SecureDataHandler.__init__
hybrid_sensitive_tables ==
    << <<"u","s","e","r","s">>,
       <<"p","a","s","s","w","o","r","d","s">>,
       <<"c","r","e","d","i","t","_","c","a","r","d","s">>,
       <<"s","s","n">>,
       <<"p","e","r","s","o","n","a","l","_","d","a","t","a">>,
       <<"c","u","s","t","o","m","e","r","s">>,
       <<"e","m","p","l","o","y","e","e","s">>,
       <<"p","a","t","i","e","n","t","s">>,
       <<"c","l","i","e","n","t","s">>,
       <<"a","c","c","o","u","n","t","s">>,
       <<"f","i","n","a","n","c","i","a","l">>,
       <<"m","e","d","i","c","a","l">>,
       <<"l","e","g","a","l">>,
       <<"c","o","n","f","i","d","e","n","t","i","a","l">> >>

hybrid_sensitive_columns ==
    << <<"p","a","s","s","w","o","r","d">>,
       <<"s","s","n">>,
       <<"c","r","e","d","i","t","_","c","a","r","d">>,
       <<"e","m","a","i","l">>,
       <<"p","h","o","n","e">>,
       <<"a","d","d","r","e","s","s">>,
       <<"s","a","l","a","r","y">>,
       <<"m","e","d","i","c","a","l">>,
       <<"l","e","g","a","l">>,
       <<"c","o","n","f","i","d","e","n","t","i","a","l">>,
       <<"s","e","c","r","e","t">>,
       <<"p","r","i","v","a","t","e">>,
       <<"i","n","t","e","r","n","a","l">>,
       <<"s","e","n","s","i","t","i","v","e">> >>

\* secure_app_cloud_only.py and secure_app_with_model_selection.py, sanitize_schema
cloud_sensitive_tables ==
    << <<"u","s","e","r","s">>,
       <<"p","a","s","s","w","o","r","d","s">>,
       <<"c","r","e","d","i","t","_","c","a","r","d","s">>,
       <<"s","s","n">>,
       <<"p","e","r","s","o","n","a","l","_","d","a","t","a">> >>

cloud_sensitive_columns ==
    << <<"p","a","s","s","w","o","r","d">>,
       <<"s","s","n">>,
       <<"c","r","e","d","i","t","_","c","a","r","d">>,
       <<"e","m","a","i","l">>,
       <<"p","h","o","n","e">> >>

local_sensitive_tables ==
    << <<"u","s","e","r","s">>,
       <<"p","a","s","s","w","o","r","d","s">>,
       <<"c","r","e","d","i","t","_","c","a","r","d","s">>,
       <<"s","s","n">>,
       <<"p","e","r","s","o","n","a","l","_","d","a","t","a">> >>

local_sensitive_columns ==
    << <<"p","a","s","s","w","o","r","d">>,
       <<"s","s","n">>,
       <<"c","r","e","d","i","t","_","c","a","r","d">>,
       <<"e","m","a","i","l">>,
       <<"p","h","o","n","e">> >>

\* secure_app_postgresql.py, SecureDataHandler.sanitize_schema
pg_sensitive_patterns ==
    << <<"p","a","s","s","w","o","r","d">>,
       <<"p","a","s","s","w","d">>,
       <<"p","w","d">>,
       <<"c","r","e","d","i","t","_","c","a","r","d">>,
       <<"c","c","_","n","u","m","b","e","r">>,
       <<"c","a","r","d","_","n","u","m","b","e","r">>,
       <<"s","s","n">>,
       <<"s","o","c","i","a","l","_","s","e","c","u","r","i","t","y">>,
       <<"e","m","a","i","l">>,
       <<"p","h","o","n","e">>,
       <<"t","e","l","e","p","h","o","n","e">>,
       <<"a","d","d","r","e","s","s">>,
       <<"s","t","r","e","e","t">>,
       <<"c","i","t","y">>,
       <<"i","p","_","a","d","d","r","e","s","s">>,
       <<"i","p","_","a","d","d","r">>,
       <<"i","b","a","n">>,
       <<"a","c","c","o","u","n","t","_","n","u","m","b","e","r">> >>

txtCreateTable == <<"C","R","E","A","T","E"," ","T","A","B","L","E">>
txtCreateTableSp == <<"C","R","E","A","T","E"," ","T","A","B","L","E"," ">>
txtTablePrefix == <<"-","-"," ","T","a","b","l","e"," ">>
txtRemovedSuffix == <<" ","r","e","m","o","v","e","d"," ","f","o","r"," ","s","e","c","u","r","i","t","y">>
txtRedactedTable == <<"[","R","E","D","A","C","T","E","D","_","T","A","B","L","E","]">>
txtRedactedColumn == <<"[","R","E","D","A","C","T","E","D","_","C","O","L","U","M","N","]">>
txtRedacted == <<"[","R","E","D","A","C","T","E","D","]">>

\* rf'CREATE TABLE\s+`?{table}`?\s*\([^)]*\);?'  (IGNORECASE | MULTILINE | DOTALL)
HybridCreateTableRe(table) ==
    << LitI(txtCreateTable), Cls(Whitespace, 1, Unbounded), OptChr(Backtick), LitI(table),
       OptChr(Backtick), Cls(Whitespace, 0, Unbounded), Chr("("), NCls({")"}, 0, Unbounded),
       Chr(")"), OptChr(";") >>

\* rf'`?{table}`?'  (IGNORECASE)
HybridTableRefRe(table) == << OptChr(Backtick), LitI(table), OptChr(Backtick) >>

\* rf'`?{column}`?\s+[^,\n)]*'  (IGNORECASE)
HybridColumnRe(column) ==
    << OptChr(Backtick), LitI(column), OptChr(Backtick), Cls(Whitespace, 1, Unbounded),
       NCls({",", "\n", ")"}, 0, Unbounded) >>

\* hybrid sanitize_schema, the loop over sensitive_tables from entry k on
RECURSIVE HybridSanitizeTables(_, _)
HybridSanitizeTables(schema_text, k) ==
    IF k > Len(hybrid_sensitive_tables) THEN schema_text
    ELSE LET table == hybrid_sensitive_tables[k]
             removed == ReSub(HybridCreateTableRe(table),
                              txtTablePrefix \o table \o txtRemovedSuffix, schema_text)
             redacted == ReSub(HybridTableRefRe(table), txtRedactedTable, removed)
         IN  Then(removed, Then(redacted, HybridSanitizeTables(redacted, k + 1)))

\* hybrid sanitize_schema, the loop over sensitive_columns from entry k on
RECURSIVE HybridSanitizeColumns(_, _)
HybridSanitizeColumns(schema_text, k) ==
    IF k > Len(hybrid_sensitive_columns) THEN schema_text
    ELSE LET redacted == ReSub(HybridColumnRe(hybrid_sensitive_columns[k]),
                               txtRedactedColumn, schema_text)
         IN  Then(redacted, HybridSanitizeColumns(redacted, k + 1))

\* hybrid SecureDataHandler.sanitize_schema
hybrid_sanitize_schema(schema_text) ==
    HybridSanitizeColumns(HybridSanitizeTables(schema_text, 1), 1)

\* rf'CREATE TABLE {table}[^;]+;'  (IGNORECASE)
CloudCreateTableRe(table) ==
    << LitI(txtCreateTableSp), LitI(table), NCls({";"}, 1, Unbounded), Chr(";") >>

\* the same pattern in secure_app_with_model_selection.py
LocalCreateTableRe(table) ==
    << LitI(txtCreateTableSp), LitI(table), NCls({";"}, 1, Unbounded), Chr(";") >>

\* cloud-only sanitize_schema, the loop over sensitive_tables from entry k on
RECURSIVE CloudSanitizeTables(_, _)
CloudSanitizeTables(schema_text, k) ==
    IF k > Len(cloud_sensitive_tables) THEN schema_text
    ELSE LET table == cloud_sensitive_tables[k]
             removed == IF Contains(Lower(schema_text), table)
                        THEN ReSub(CloudCreateTableRe(table), <<>>, schema_text)
                        ELSE schema_text
         IN  Then(removed, CloudSanitizeTables(removed, k + 1))

\* cloud-only SecureDataHandler.sanitize_schema (sensitive_columns is never read)
cloud_sanitize_schema(schema_text) == CloudSanitizeTables(schema_text, 1)

\* local-model sanitize_schema, the loop over sensitive_tables from entry k on
RECURSIVE LocalSanitizeTables(_, _)
LocalSanitizeTables(schema_text, k) ==
    IF k > Len(local_sensitive_tables) THEN schema_text
    ELSE LET table == local_sensitive_tables[k]
             removed == IF Contains(Lower(schema_text), table)
                        THEN ReSub(LocalCreateTableRe(table), <<>>, schema_text)
                        ELSE schema_text
         IN  Then(removed, LocalSanitizeTables(removed, k + 1))

\* local-model SecureDataHandler.sanitize_schema (sensitive_columns is never read)
local_sanitize_schema(schema_text) == LocalSanitizeTables(schema_text, 1)

\* a plausible slip: the flags argument of re.sub is left out
PgPatternCaseSensitive(pattern) == << Lit(pattern) >>

\* re.sub(pattern, ..., flags=re.IGNORECASE): the pattern as it is compiled
PgPattern(pattern) == << LitI(pattern) >>

\* PostgreSQL sanitize_schema, the loop over sensitive_patterns from entry k on
RECURSIVE PgSanitizePatterns(_, _)
PgSanitizePatterns(text, k) ==
    IF k > Len(pg_sensitive_patterns) THEN text
    ELSE LET redacted == ReSub(PgPattern(pg_sensitive_patterns[k]), txtRedacted, text)
         IN  Then(redacted, PgSanitizePatterns(redacted, k + 1))

\* PostgreSQL SecureDataHandler.sanitize_schema
pg_sanitize_schema(schema_info) == PgSanitizePatterns(schema_info, 1)

-----------------------------------------------------------------------------
(* Result sanitizers                                                       *)

CardSeparators == {"-", " "}
EmailLocalChars == LowerSet \cup UpperSet \cup Digits \cup {".", "_", "%", "+", "-"}
EmailDomainChars == LowerSet \cup UpperSet \cup Digits \cup {".", "-"}
EmailTldChars == LowerSet \cup UpperSet \cup {"|"}
IbanChars == UpperSet \cup Digits

\* r'\b\d{4}[- ]?\d{4}[- ]?\d{4}[- ]?\d{4}\b'
CreditCardRe ==
    << WB, Cls(Digits, 4, 4), Cls(CardSeparators, 0, 1), Cls(Digits, 4, 4),
       Cls(CardSeparators, 0, 1), Cls(Digits, 4, 4), Cls(CardSeparators, 0, 1),
       Cls(Digits, 4, 4), WB >>

\* r'\b[A-Za-z0-9._%+-]+@[A-Za-z0-9.-]+\.[A-Z|a-z]{2,}\b'
EmailRe ==
    << WB, Cls(EmailLocalChars, 1, Unbounded), Chr("@"), Cls(EmailDomainChars, 1, Unbounded),
       Chr("."), Cls(EmailTldChars, 2, Unbounded), WB >>

\* r'\b\d{3}-\d{2}-\d{4}\b'
SsnRe == << WB, Cls(Digits, 3, 3), Chr("-"), Cls(Digits, 2, 2), Chr("-"), Cls(Digits, 4, 4), WB >>

\* r'\b\d{10,11}\b'
PhoneRe == << WB, Cls(Digits, 10, 11), WB >>

\* r'\b[A-Z]{2}\d{2}[A-Z0-9]{4}\d{7}([A-Z0-9]?){0,16}\b'
IbanRe ==
    << WB, Cls(UpperSet, 2, 2), Cls(Digits, 2, 2), Cls(IbanChars, 4, 4), Cls(Digits, 7, 7),
       Cls(IbanChars, 0, 16), WB >>

\* r'\b\d{1,3}\.\d{1,3}\.\d{1,3}\.\d{1,3}\b'
IpRe ==
    << WB, Cls(Digits, 1, 3), Chr("."), Cls(Digits, 1, 3), Chr("."), Cls(Digits, 1, 3),
       Chr("."), Cls(Digits, 1, 3), WB >>

txtRedactedIp == <<"[","R","E","D","A","C","T","E","D","_","I","P","]">>
txtRedactedIban == <<"[","R","E","D","A","C","T","E","D","_","I","B","A","N","]">>
txtEmail == <<"[","E","M","A","I","L","]">>
txtCreditCard == <<"[","C","R","E","D","I","T","_","C","A","R","D","]">>
txtSsn == <<"[","S","S","N","]">>
txtIpAddress == <<"[","I","P","_","A","D","D","R","E","S","S","]">>

\* `for pattern in patterns: text = re.sub(pattern, replacement, text)` from entry k on;
\* subs[k] is the pair <<pattern, replacement>>
RECURSIVE SubAll(_, _, _)
SubAll(subs, text, k) ==
    IF k > Len(subs) THEN text
    ELSE LET replaced == ReSub(subs[k][1], subs[k][2], text)
         IN  Then(replaced, SubAll(subs, replaced, k + 1))

\* secure_app_cloud_only.py, SecureDataHandler.__init__: self.sensitive_patterns
cloud_sensitive_patterns == << CreditCardRe, EmailRe, SsnRe, PhoneRe >>

\* secure_hybrid_app.py, SecureDataHandler.__init__: self.sensitive_patterns
hybrid_sensitive_patterns == << CreditCardRe, EmailRe, SsnRe, PhoneRe, IbanRe >>

\* secure_app_postgresql.py, sanitize_query_result: sensitive_patterns, in the dict's order
pg_result_patterns ==
    << <<EmailRe, txtEmail>>, <<CreditCardRe, txtCreditCard>>, <<SsnRe, txtSsn>>,
       <<IpRe, txtIpAddress>> >>

\* cloud-only SecureDataHandler.sanitize_results
cloud_sanitize_results(results) ==
    SubAll([k \in 1..Len(cloud_sensitive_patterns) |-> <<cloud_sensitive_patterns[k], txtRedacted>>],
           results, 1)

\* hybrid SecureDataHandler.sanitize_results
hybrid_sanitize_results(results) ==
    LET masked == SubAll([k \in 1..Len(hybrid_sensitive_patterns) |->
                              <<hybrid_sensitive_patterns[k], txtRedacted>>], results, 1)
    IN  SubAll(<< <<IpRe, txtRedactedIp>>, <<IbanRe, txtRedactedIban>> >>, masked, 1)

\* PostgreSQL SecureDataHandler.sanitize_query_result
pg_sanitize_query_result(result) ==
    IF result = <<>> THEN result
    ELSE SubAll(pg_result_patterns, result, 1)

-----------------------------------------------------------------------------
(* Specification of the validators as pure functions: the query is drawn   *)
(* from the texts made of at most MaxTokens tokens, and each action        *)
(* applies one variant's validator to it.                                  *)

MaxTokens == 3

QueryTokens ==
    { <<"S","E","L","E","C","T"," ","*"," ","F","R","O","M"," ">>,
      <<" ">>,
      <<"'">>,
      <<"x">>,
      <<"D","R","O","P">>,
      <<"d","e","l","e","t","e">>,
      <<"T","r","u","n","c","a","t","e">>,
      <<"a","l","t","e","r">>,
      <<"c","r","e","a","t","e","d","_","a","t">>,
      <<"I","n","s","e","r","t">>,
      <<"U","P">>,
      <<"D","A","T","E">>,
      <<"u","s","e","r","s">>,
      <<"s","e","l","e","c","t"," ","1">>,
      <<"g","r","a","n","t">>,
      <<"R","e","v","o","k","e">>,
      <<"E","X","E","C","U","T","E">> }

\* the texts made of at most n tokens
RECURSIVE TokenTexts(_, _)
TokenTexts(tokens, n) ==
    IF n = 0 THEN { <<>> }
    ELSE LET shorter == TokenTexts(tokens, n - 1)
         IN  shorter \cup { t \o token : t \in shorter, token \in tokens }

Queries == TokenTexts(QueryTokens, MaxTokens)

NoVerdict == [by |-> "none"]
NoSanitized == [by |-> "none"]

NoRecord == [absent |-> TRUE]

ValidatorsIdle == sql = <<>> /\ verdict = NoVerdict
SanitizersIdle == schema = <<>> /\ sanitized = NoSanitized
AppIdle ==
    /\ app = "none"
    /\ env = NoRecord
    /\ session = NoRecord
    /\ pc = "off"
    /\ call = NoRecord
    /\ rerun = NoRecord
    /\ log = <<>>
TesterIdle == tester = NoRecord

InitValidators ==
    /\ sql \in Queries
    /\ verdict = NoVerdict
    /\ SanitizersIdle
    /\ AppIdle
    /\ TesterIdle

ValidateCloud ==
    /\ verdict = NoVerdict
    /\ verdict' = [by |-> "cloud", ok |-> cloud_validate_sql(sql)]
    /\ UNCHANGED <<sql, sanitizerVars, appVars, tester>>

ValidateLocal ==
    /\ verdict = NoVerdict
    /\ verdict' = [by |-> "local", ok |-> local_validate_sql(sql)]
    /\ UNCHANGED <<sql, sanitizerVars, appVars, tester>>

ValidateHybrid ==
    /\ verdict = NoVerdict
    /\ verdict' = [by |-> "hybrid", ok |-> hybrid_validate_sql(sql)]
    /\ UNCHANGED <<sql, sanitizerVars, appVars, tester>>

ValidatePg ==
    /\ verdict = NoVerdict
    /\ verdict' = [by |-> "pg", ok |-> pg_is_safe_query(sql).safe,
                   message |-> pg_is_safe_query(sql)]
    /\ UNCHANGED <<sql, sanitizerVars, appVars, tester>>

NextValidators == ValidateCloud \/ ValidateLocal \/ ValidateHybrid \/ ValidatePg

SpecValidators == InitValidators /\ [][NextValidators]_vars

-----------------------------------------------------------------------------
(* Specification of the schema sanitizers as pure functions: the schema    *)
(* text is drawn from the texts made of at most MaxSchemaTokens fragments, *)
(* and each action applies one variant's sanitize_schema to it.            *)

MaxSchemaTokens == 2

SchemaTokens ==
    { <<"C","R","E","A","T","E"," ","T","A","B","L","E"," ","u","s","e","r","s"," ","(","e","m","a","i","l"," ","T","E","X","T",")",";">>,
      <<"C","R","E","A","T","E"," ","T","A","B","L","E"," ",Backtick,"u","s","e","r","s",Backtick," ","(","\n","\t","s","s","n"," ","T","E","X","T","\n",")","\n">>,
      <<"C","R","E","A","T","E"," ","T","A","B","L","E"," ","o","r","d","e","r","s"," ","(","i","d"," ","I","N","T",","," ","P","h","o","n","e"," ","T","E","X","T",")",";">>,
      <<"C","R","E","A","T","E"," ","T","A","B","L","E"," ","t"," ","(","e","m","a","i","l","_","a","d","d","r","e","s","s"," ","T","E","X","T",")">>,
      <<"A","c","c","o","u","n","t","s">>,
      <<"i","p","_","a","d","d","r","e","s","s">>,
      <<"t","e","l","e","p","h","o","n","e",",">>,
      <<"P","a","s","s","W","o","r","d"," ">>,
      <<"e">>,
      <<"m","a","i","l">>,
      <<"p","E","m","a","i","l","w","d">>,
      <<" ">>,
      <<"u","s","e","r","_">>,
      <<"c","i","t","y","_","i","d"," ","I","N","T">> }

Schemas == TokenTexts(SchemaTokens, MaxSchemaTokens)

InitSanitizers ==
    /\ schema \in Schemas
    /\ sanitized = NoSanitized
    /\ ValidatorsIdle
    /\ AppIdle
    /\ TesterIdle

SanitizeCloud ==
    /\ sanitized = NoSanitized
    /\ sanitized' = [by |-> "cloud", out |-> cloud_sanitize_schema(schema)]
    /\ UNCHANGED <<schema, validatorVars, appVars, tester>>

SanitizeLocal ==
    /\ sanitized = NoSanitized
    /\ sanitized' = [by |-> "local", out |-> local_sanitize_schema(schema)]
    /\ UNCHANGED <<schema, validatorVars, appVars, tester>>

SanitizeHybrid ==
    /\ sanitized = NoSanitized
    /\ sanitized' = [by |-> "hybrid", out |-> hybrid_sanitize_schema(schema)]
    /\ UNCHANGED <<schema, validatorVars, appVars, tester>>

SanitizePg ==
    /\ sanitized = NoSanitized
    /\ sanitized' = [by |-> "pg", out |-> pg_sanitize_schema(schema)]
    /\ UNCHANGED <<schema, validatorVars, appVars, tester>>

NextSanitizers == SanitizeCloud \/ SanitizeLocal \/ SanitizeHybrid \/ SanitizePg

SpecSanitizers == InitSanitizers /\ [][NextSanitizers]_vars

-----------------------------------------------------------------------------
(* The applications.  A Streamlit script runs from top to bottom on every  *)
(* user interaction: the widgets hold what the user chose, st.session_state *)
(* is what survives from run to run.  A run that receives a question calls *)
(* get_response / get_response_secure (or, in the PostgreSQL variant, goes *)
(* on inline); that part is modelled step by step, and each step appends   *)
(* to `log` what it did.  What the LLMs and the database answer is drawn   *)
(* from small sets; either may raise instead.  When the call has returned  *)
(* (pc = "done") the run appends its message and ends, and the log is      *)
(* dropped.                                                                *)

\* a question is asked only while the chat history holds fewer messages than this
MaxHistory == 2

\* what an LLM may write when asked for a query
LlmQueries ==
    { <<"S","E","L","E","C","T"," ","*"," ","F","R","O","M"," ","u","s","e","r","s">>,
      <<"S","E","L","E","C","T"," ","1">>,
      <<"d","r","o","p"," ","t","a","b","l","e"," ","t">>,
      <<"S","E","L","E","C","T"," ","'","U","p","d","a","t","e","'">>,
      <<" "," ">> }

\* what db.run may return
DbResults ==
    { <<>>,
      <<"[","(","1",","," ","'","a","@","b",".","c","o","'",")","]">>,
      <<"4","1","1","1"," ","1","1","1","1"," ","1","1","1","1"," ","1","1","1","1">>,
      <<"1","0",".","0",".","0",".","1">>,
      <<"[","(","3",",",")","]">> }

\* what db.get_table_info() may return
DbSchemas ==
    { <<"C","R","E","A","T","E"," ","T","A","B","L","E"," ","u","s","e","r","s"," ","(","e","m","a","i","l"," ","T","E","X","T",")",";">>,
      <<"C","R","E","A","T","E"," ","T","A","B","L","E"," ","t"," ","(","i","d"," ","I","N","T",")">> }

Raised == [kind |-> "raised"]
Text(t) == [kind |-> "text", text |-> t]

\* an LLM client object
Llm(kind, model) == [kind |-> kind, model |-> model]

\* the events of the log
LlmCall(purpose, llm, prompt) == [e |-> "llm", purpose |-> purpose, llm |-> llm, prompt |-> prompt]
Validated(query, ok) == [e |-> "validate", query |-> query, ok |-> ok]
DbRun(query, outcome) == [e |-> "db_run", query |-> query, outcome |-> outcome]
Called(mode) == [e |-> "call", mode |-> mode]
Shown(what, content) == [e |-> "show", what |-> what, content |-> content]

AIMessage(content) == [role |-> "AI", content |-> content]
HumanMessage(content) == [role |-> "Human", content |-> content]

\* the values st.chat_input may hand to a run
UserQueries == {"none", "blank", "question"}

Providers == {"groq", "openai"}

\* The sanitizers and validators on the texts the applications meet, each
\* computed once: the steps below look the function's value up.
CloudSchemaTable == [t \in DbSchemas |-> cloud_sanitize_schema(t)]
HybridSchemaTable == [t \in DbSchemas |-> hybrid_sanitize_schema(t)]
PgSchemaTable == [t \in DbSchemas |-> pg_sanitize_schema(t)]
CloudResultsTable == [t \in DbResults |-> cloud_sanitize_results(t)]
HybridResultsTable == [t \in DbResults |-> hybrid_sanitize_results(t)]
PgResultTable == [t \in DbResults |-> pg_sanitize_query_result(t)]
CloudValidateTable == [q \in LlmQueries |-> cloud_validate_sql(q)]
HybridValidateTable == [q \in LlmQueries |-> hybrid_validate_sql(q)]

-----------------------------------------------------------------------------
(* secure_app_cloud_only.py                                                *)

\* CloudModelManager.__init__: the models of each provider
cloud_available_models ==
    [openai |-> <<"gpt-4o-mini", "gpt-4o", "gpt-3.5-turbo">>,
     groq |-> <<"mixtral-8x7b-32768", "llama3-70b-8192", "gemma2-9b-it">>]

\* the positions of the 'Temperature (Creativity)' slider, in tenths
Temperatures == {0, 7}

\* CloudModelManager.create_llm; `built` is whether the client's constructor returned
cloud_create_llm(provider, model, temperature, built) ==
    IF built THEN [kind |-> provider, model |-> model, temperature |-> temperature]
    ELSE NoRecord

CloudSessionInit ==
    [current_llm |-> NoRecord, selected_model |-> "", provider |-> "", db |-> FALSE,
     chat_history |-> <<>>]

CloudGreeting == <<AIMessage("greeting")>>

\* a plausible slip: the model is loaded in every run that has an API key
cloud_llm_wanted_always(api_key, s, selected_model, provider) == api_key

\* main(): the condition of "# Initialize LLM"
cloud_llm_wanted(api_key, s, selected_model, provider) ==
    api_key /\ (\/ s.current_llm = NoRecord
                \/ s.selected_model # selected_model
                \/ s.provider # provider)

\* a plausible slip: the history is set up in every run
cloud_init_chat_history_always(s) == [s EXCEPT !.chat_history = CloudGreeting]

\* main(): "# Initialize chat history"
cloud_init_chat_history(s) ==
    IF s.chat_history = <<>> THEN [s EXCEPT !.chat_history = CloudGreeting] ELSE s

\* a plausible slip: only the database is looked for
cloud_can_answer_with_db(s) == s.db

\* main(): if "db" in st.session_state and "current_llm" in st.session_state
cloud_can_answer(s) == s.db /\ s.current_llm # NoRecord

\* main(): the sidebar's widgets and what "# Initialize LLM" did in this run
CloudRun(provider, selected_model, api_key, temperature, user_query, create_llm) ==
    [provider |-> provider, selected_model |-> selected_model, api_key |-> api_key,
     temperature |-> temperature, user_query |-> user_query, create_llm |-> create_llm]

\* main(): one run of the script up to the call of get_response
CloudMain ==
    /\ app = "cloud"
    /\ pc = "idle"
    /\ \E provider \in Providers, api_key \in BOOLEAN, temperature \in Temperatures,
          connects \in (IF session.db THEN {FALSE} ELSE BOOLEAN),
          user_query \in UserQueries :
       \E selected_model \in Range(cloud_available_models[provider]) :
          LET load == cloud_llm_wanted(api_key, session, selected_model, provider)
          IN  \E built \in IF load THEN BOOLEAN ELSE {TRUE} :
          LET llm == cloud_create_llm(provider, selected_model, temperature, built)
              loaded == IF load /\ llm # NoRecord
                        THEN [session EXCEPT !.current_llm = llm,
                                             !.selected_model = selected_model,
                                             !.provider = provider]
                        ELSE session
              connected == IF connects THEN [loaded EXCEPT !.db = TRUE] ELSE loaded
              greeted == cloud_init_chat_history(connected)
              asked == [greeted EXCEPT !.chat_history = Append(@, HumanMessage("question"))]
              created == IF ~load THEN "not_called" ELSE IF built THEN "built" ELSE "failed"
              \* st.chat_input is called only in a run that gets past the sidebar
              entered == IF created = "failed" THEN "unread" ELSE user_query
          IN  /\ rerun' = CloudRun(provider, selected_model, api_key, temperature,
                                   entered, created)
              /\ IF load /\ llm = NoRecord
                 THEN \* st.stop()
                      /\ session' = loaded
                      /\ UNCHANGED <<pc, call, log>>
                 ELSE IF user_query # "question"
                 THEN /\ session' = greeted
                      /\ UNCHANGED <<pc, call, log>>
                 ELSE /\ Len(greeted.chat_history) < MaxHistory
                      /\ session' = asked
                      /\ IF cloud_can_answer(asked)
                         THEN /\ pc' = "sql_chain"
                              /\ log' = <<Called("cloud")>>
                              /\ call' = [llm |-> asked.current_llm, query |-> <<>>,
                                          schema |-> NoRecord, response |-> NoRecord,
                                          returned |-> ""]
                         ELSE /\ log' = <<>>
                              /\ UNCHANGED <<pc, call>>
    /\ UNCHANGED <<app, env, validatorVars, sanitizerVars, tester>>

\* get_response returns `content`, having done `events`
CloudReturn(content, events) ==
    /\ call' = [call EXCEPT !.returned = content]
    /\ log' = log \o events
    /\ pc' = "done"
    /\ UNCHANGED session

\* get_response: sql_chain inside chain.invoke, that is get_schema, the prompt and the LLM
CloudSqlChain ==
    /\ app = "cloud"
    /\ pc = "sql_chain"
    /\ \E schema_read \in BOOLEAN, answer \in {Raised} \cup {Text(q) : q \in LlmQueries} :
          LET asks == LlmCall("sql", call.llm,
                              [schema |-> Text(CloudSchemaTable[env.table_info])])
          IN  IF ~schema_read THEN CloudReturn("sorry", <<>>)
              ELSE IF answer = Raised THEN CloudReturn("sorry", <<asks>>)
              ELSE /\ call' = [call EXCEPT !.query = answer.text]
                   /\ log' = Append(log, asks)
                   /\ pc' = "assign"
                   /\ UNCHANGED session
    /\ UNCHANGED <<app, env, rerun, validatorVars, sanitizerVars, tester>>

\* the two assignments of .assign(schema=..., response=...) are run side by side;
\* the chain goes on when both are done
\* a plausible slip: the chain goes on as soon as one of the two is done
CloudAssignedEither(c) ==
    IF c.schema # NoRecord \/ c.response # NoRecord THEN "respond" ELSE "assign"

CloudAssigned(c) ==
    IF c.schema # NoRecord /\ c.response # NoRecord THEN "respond" ELSE "assign"

\* get_response: schema=lambda _: data_handler.sanitize_schema(db.get_table_info())
CloudAssignSchema ==
    /\ app = "cloud"
    /\ pc = "assign"
    /\ call.schema = NoRecord
    /\ \E schema_read \in BOOLEAN :
          LET done == [call EXCEPT !.schema = IF schema_read
                                              THEN Text(CloudSchemaTable[env.table_info])
                                              ELSE Raised]
          IN  /\ call' = done
              /\ pc' = CloudAssigned(done)
    /\ UNCHANGED <<app, env, rerun, session, log, validatorVars, sanitizerVars, tester>>

\* a plausible slip: the query is run without asking the validator
cloud_execute_query_unvalidated(query, outcome) ==
    [response |-> IF outcome = Raised THEN [kind |-> "error_executing"]
                  ELSE Text(CloudResultsTable[outcome.text]),
     events |-> <<DbRun(query, outcome)>>]

\* a plausible slip: db.run is called outside any try, its exception goes up
cloud_execute_query_uncaught(query, outcome) ==
    IF ~CloudValidateTable[query]
    THEN [response |-> [kind |-> "error_dangerous"], events |-> <<Validated(query, FALSE)>>]
    ELSE [response |-> IF outcome = Raised THEN Raised
                       ELSE Text(CloudResultsTable[outcome.text]),
          events |-> <<Validated(query, TRUE), DbRun(query, outcome)>>]

\* a plausible slip: the results are returned as the database gave them
cloud_execute_query_unsanitized(query, outcome) ==
    IF ~CloudValidateTable[query]
    THEN [response |-> [kind |-> "error_dangerous"], events |-> <<Validated(query, FALSE)>>]
    ELSE [response |-> IF outcome = Raised THEN [kind |-> "error_executing"] ELSE outcome,
          events |-> <<Validated(query, TRUE), DbRun(query, outcome)>>]

\* get_response.execute_query_safely: what it returns and what it does, `outcome`
\* being what db.run answers if it is called
cloud_execute_query_safely(query, outcome) ==
    IF ~CloudValidateTable[query]
    THEN [response |-> [kind |-> "error_dangerous"], events |-> <<Validated(query, FALSE)>>]
    ELSE [response |-> IF outcome = Raised THEN [kind |-> "error_executing"]
                       ELSE Text(CloudResultsTable[outcome.text]),
          events |-> <<Validated(query, TRUE), DbRun(query, outcome)>>]

\* get_response: response=execute_query_safely
CloudExecuteQuerySafely ==
    /\ app = "cloud"
    /\ pc = "assign"
    /\ call.response = NoRecord
    /\ \E outcome \in {Raised} \cup {Text(r) : r \in DbResults} :
          LET ran == cloud_execute_query_safely(call.query, outcome)
              done == [call EXCEPT !.response = ran.response]
          IN  /\ call' = done
              /\ log' = log \o ran.events
              /\ pc' = CloudAssigned(done)
    /\ UNCHANGED <<app, env, rerun, session, validatorVars, sanitizerVars, tester>>

\* get_response: prompt | llm | StrOutputParser() on the assigned values
CloudRespond ==
    /\ app = "cloud"
    /\ pc = "respond"
    /\ \E answered \in BOOLEAN :
          LET asks == LlmCall("response", call.llm,
                              [schema |-> call.schema, query |-> call.query,
                               response |-> call.response])
          IN  IF call.schema = Raised \/ call.response = Raised
              THEN CloudReturn("sorry", <<>>)
              ELSE IF answered THEN CloudReturn("answer", <<asks>>)
              ELSE CloudReturn("sorry", <<asks>>)
    /\ UNCHANGED <<app, env, rerun, validatorVars, sanitizerVars, tester>>

\* main(): st.session_state.chat_history.append(AIMessage(content=response)); the run ends
CloudFinish ==
    /\ app = "cloud"
    /\ pc = "done"
    /\ session' = [session EXCEPT !.chat_history = Append(@, AIMessage(call.returned))]
    /\ pc' = "idle"
    /\ call' = NoRecord
    /\ log' = <<>>
    /\ UNCHANGED <<app, env, rerun, validatorVars, sanitizerVars, tester>>

-----------------------------------------------------------------------------
(* secure_hybrid_app.py                                                    *)

ModeLocal == "Local Only (Maximum Security)"
ModeHybrid == "Hybrid (Local + Cloud)"
ModeCloud == "Cloud Only (Fast)"

\* what `ollama list` may report (HybridModelManager.get_available_local_models)
LocalModelLists == { <<>>, <<"sqlcoder:15b">> }

\* the options of the sidebar's cloud model selectbox, by provider
hybrid_cloud_models ==
    [groq |-> <<"mixtral-8x7b-32768", "llama3-70b-8192">>,
     openai |-> <<"gpt-4o-mini", "gpt-3.5-turbo">>]

\* HybridModelManager.create_local_llm; `built` is whether Ollama(...) returned
create_local_llm(model_name, built) ==
    IF built THEN Llm("ollama", model_name) ELSE NoRecord

\* HybridModelManager.create_cloud_llm; `built` is whether the constructor returned
create_cloud_llm(provider, model, built) ==
    IF built THEN Llm(provider, model) ELSE NoRecord

\* the client talks to a service outside the machine
IsCloudLlm(llm) == llm.kind \in Providers

HybridSessionInit ==
    [local_llm |-> NoRecord, selected_local |-> "", hybrid_models |-> NoRecord,
     cloud_llm |-> NoRecord, provider |-> "", db |-> FALSE, chat_history |-> <<>>]

HybridGreeting == <<AIMessage("greeting")>>

\* main(), the chat part: the arguments of get_response_secure for the mode,
\* or the message given instead when the mode's model is not loaded
HybridDispatch(processing_mode, s) ==
    IF processing_mode = ModeLocal
    THEN IF s.local_llm # NoRecord
         THEN [llm |-> s.local_llm, use_local |-> TRUE]
         ELSE [refused |-> "local_not_loaded"]
    ELSE IF processing_mode = ModeHybrid
    THEN IF s.hybrid_models # NoRecord
         THEN [llm |-> s.hybrid_models.local, use_local |-> TRUE]
         ELSE [refused |-> "hybrid_not_loaded"]
    ELSE IF s.cloud_llm # NoRecord
         THEN [llm |-> s.cloud_llm, use_local |-> FALSE]
         ELSE [refused |-> "cloud_not_loaded"]

\* main(): the sidebar's radio button and the selectboxes of its mode, and
\* whether the run went past the sidebar
HybridSidebar(processing_mode, selection, reached_chat) ==
    [processing_mode |-> processing_mode, selection |-> selection,
     reached_chat |-> reached_chat]

\* main() after the mode's part of the sidebar, which left the session as s:
\* the database connection, the chat history and the question
HybridChat(processing_mode, selection, s, connects, user_query) ==
    LET connected == IF connects THEN [s EXCEPT !.db = TRUE] ELSE s
        greeted == IF connected.chat_history = <<>>
                   THEN [connected EXCEPT !.chat_history = HybridGreeting]
                   ELSE connected
        asked == [greeted EXCEPT !.chat_history = Append(@, HumanMessage("question"))]
        args == HybridDispatch(processing_mode, asked)
    IN  /\ rerun' = HybridSidebar(processing_mode, selection, TRUE)
        /\ IF user_query # "question"
           THEN /\ session' = greeted
                /\ UNCHANGED <<pc, call, log>>
           ELSE /\ Len(greeted.chat_history) < MaxHistory
                /\ IF ~asked.db
                   THEN /\ session' = asked
                        /\ UNCHANGED <<pc, call, log>>
                   ELSE IF "refused" \in DOMAIN args
                   THEN /\ session' = [asked EXCEPT !.chat_history =
                                                       Append(@, AIMessage(args.refused))]
                        /\ UNCHANGED <<pc, call, log>>
                   ELSE /\ session' = asked
                        /\ pc' = "sql_chain"
                        /\ log' = <<Called(processing_mode)>>
                        /\ call' = [mode |-> processing_mode, llm |-> args.llm,
                                    use_local |-> args.use_local, query |-> <<>>,
                                    results |-> <<>>, returned |-> ""]

\* st.stop() in the sidebar: the run ends there
HybridStop(processing_mode, selection) ==
    /\ rerun' = HybridSidebar(processing_mode, selection, FALSE)
    /\ UNCHANGED <<session, pc, call, log>>

\* main(), processing_mode == "Local Only (Maximum Security)"
HybridLocalOnly(connects, user_query) ==
    \E available_local \in LocalModelLists :
       IF available_local = <<>> THEN HybridStop(ModeLocal, NoRecord)
       ELSE \E selected_local \in Range(available_local) :
               LET selection == [selected_local |-> selected_local]
               IN  IF session.local_llm = NoRecord \/ session.selected_local # selected_local
                   THEN \E built \in BOOLEAN :
                           LET llm == create_local_llm(selected_local, built)
                           IN  IF llm # NoRecord
                               THEN HybridChat(ModeLocal, selection,
                                               [session EXCEPT !.local_llm = llm,
                                                               !.selected_local = selected_local],
                                               connects, user_query)
                               ELSE HybridStop(ModeLocal, selection)
                   ELSE HybridChat(ModeLocal, selection, session, connects, user_query)

\* main(), processing_mode == "Hybrid (Local + Cloud)"
HybridLocalAndCloud(connects, user_query) ==
    \E available_local \in LocalModelLists, api_key \in BOOLEAN :
       IF available_local = <<>> THEN HybridStop(ModeHybrid, NoRecord)
       ELSE \E selected_local \in Range(available_local), provider \in Providers :
            \E cloud_model \in Range(hybrid_cloud_models[provider]) :
               LET selection == [selected_local |-> selected_local, provider |-> provider,
                                 cloud_model |-> cloud_model]
               IN  IF api_key /\ session.hybrid_models = NoRecord
                   THEN \E built_local \in BOOLEAN, built_cloud \in BOOLEAN :
                           LET local_llm == create_local_llm(selected_local, built_local)
                               cloud_llm == create_cloud_llm(provider, cloud_model, built_cloud)
                           IN  IF local_llm # NoRecord /\ cloud_llm # NoRecord
                               THEN HybridChat(ModeHybrid, selection,
                                               [session EXCEPT !.hybrid_models =
                                                    [local |-> local_llm, cloud |-> cloud_llm]],
                                               connects, user_query)
                               ELSE HybridStop(ModeHybrid, selection)
                   ELSE HybridChat(ModeHybrid, selection, session, connects, user_query)

\* main(), processing_mode == "Cloud Only (Fast)"
HybridCloudOnly(connects, user_query) ==
    \E provider \in Providers, api_key \in BOOLEAN :
    \E cloud_model \in Range(hybrid_cloud_models[provider]) :
       LET selection == [provider |-> provider, cloud_model |-> cloud_model]
       IN  IF api_key /\ (session.cloud_llm = NoRecord \/ session.provider # provider)
           THEN \E built \in BOOLEAN :
                   LET llm == create_cloud_llm(provider, cloud_model, built)
                   IN  IF llm # NoRecord
                       THEN HybridChat(ModeCloud, selection,
                                       [session EXCEPT !.cloud_llm = llm, !.provider = provider],
                                       connects, user_query)
                       ELSE HybridStop(ModeCloud, selection)
           ELSE HybridChat(ModeCloud, selection, session, connects, user_query)

\* main(): one run of the script up to the call of get_response_secure
HybridMain ==
    /\ app = "hybrid"
    /\ pc = "idle"
    /\ \E connects \in (IF session.db THEN {FALSE} ELSE BOOLEAN), user_query \in UserQueries :
          \/ HybridLocalOnly(connects, user_query)
          \/ HybridLocalAndCloud(connects, user_query)
          \/ HybridCloudOnly(connects, user_query)
    /\ UNCHANGED <<app, env, validatorVars, sanitizerVars, tester>>

\* get_response_secure returns `content`, having done `events`
HybridReturn(content, events) ==
    /\ call' = [call EXCEPT !.returned = content]
    /\ log' = log \o events
    /\ pc' = "done"
    /\ UNCHANGED session

\* a plausible slip: the schema is handed over as the database gives it
hybrid_get_schema_unsanitized(table_info, use_local) == table_info

\* get_sql_chain_secure.get_schema
hybrid_get_schema(table_info, use_local) ==
    IF use_local THEN table_info ELSE HybridSchemaTable[table_info]

\* get_response_secure: sql_chain.invoke, that is get_schema, the prompt and the LLM
HybridSqlChain ==
    /\ app = "hybrid"
    /\ pc = "sql_chain"
    /\ \E schema_read \in BOOLEAN, answer \in {Raised} \cup {Text(q) : q \in LlmQueries} :
          LET asks == LlmCall("sql", call.llm,
                              [schema |-> Text(hybrid_get_schema(env.table_info, call.use_local))])
          IN  IF ~schema_read THEN HybridReturn("error", <<>>)
              ELSE IF answer = Raised THEN HybridReturn("error", <<asks>>)
              ELSE /\ call' = [call EXCEPT !.query = answer.text]
                   /\ log' = Append(log, asks)
                   /\ pc' = "validate"
                   /\ UNCHANGED session
    /\ UNCHANGED <<app, env, rerun, validatorVars, sanitizerVars, tester>>

\* get_response_secure: if not validator.validate_sql(sql_query): return ...
HybridValidate ==
    /\ app = "hybrid"
    /\ pc = "validate"
    /\ LET ok == HybridValidateTable[call.query]
       IN  IF ~ok THEN HybridReturn("security_error", <<Validated(call.query, FALSE)>>)
           ELSE /\ log' = Append(log, Validated(call.query, TRUE))
                /\ pc' = "run"
                /\ UNCHANGED <<session, call>>
    /\ UNCHANGED <<app, env, rerun, validatorVars, sanitizerVars, tester>>

\* get_response_secure: results = db.run(sql_query), then sanitize_results
HybridRun ==
    /\ app = "hybrid"
    /\ pc = "run"
    /\ \E outcome \in {Raised} \cup {Text(r) : r \in DbResults} :
          IF outcome = Raised
          THEN HybridReturn("error_executing", <<DbRun(call.query, outcome)>>)
          ELSE /\ call' = [call EXCEPT !.results = HybridResultsTable[outcome.text]]
               /\ log' = Append(log, DbRun(call.query, outcome))
               /\ pc' = "respond"
               /\ UNCHANGED session
    /\ UNCHANGED <<app, env, rerun, validatorVars, sanitizerVars, tester>>

\* get_response_secure: the response chain, prompt | llm | StrOutputParser()
HybridRespond ==
    /\ app = "hybrid"
    /\ pc = "respond"
    /\ \E answered \in BOOLEAN :
          LET asks == LlmCall("response", call.llm,
                              [query |-> call.query, results |-> Text(call.results)])
          IN  IF answered THEN HybridReturn("answer", <<asks>>)
              ELSE HybridReturn("error_executing", <<asks>>)
    /\ UNCHANGED <<app, env, rerun, validatorVars, sanitizerVars, tester>>

\* main(): st.session_state.chat_history.append(AIMessage(content=response)); the run ends
HybridFinish ==
    /\ app = "hybrid"
    /\ pc = "done"
    /\ session' = [session EXCEPT !.chat_history = Append(@, AIMessage(call.returned))]
    /\ pc' = "idle"
    /\ call' = NoRecord
    /\ log' = <<>>
    /\ UNCHANGED <<app, env, rerun, validatorVars, sanitizerVars, tester>>

-----------------------------------------------------------------------------
(* secure_app_postgresql.py                                                *)

\* get_llm_chain: the client for the provider, or None when its key is not configured
get_llm_chain(provider, secrets) ==
    IF provider = "openai" /\ "openai" \in secrets THEN Llm("openai", "gpt-4o-mini")
    ELSE IF provider = "groq" /\ "groq" \in secrets THEN Llm("groq", "mixtral-8x7b-32768")
    ELSE NoRecord

\* DatabaseManager.get_schema_info, the database being connected
get_schema_info(table_info, schema_read) ==
    IF schema_read THEN Text(PgSchemaTable[table_info])
    ELSE [kind |-> "error_retrieving_schema"]

PgSessionInit == [messages |-> <<>>]

PgMessage(role, content) == [role |-> role, content |-> content]

\* main(): one run of the script up to the generation of the query
PgMain ==
    /\ app = "pg"
    /\ pc = "idle"
    /\ \E provider \in Providers, connects \in BOOLEAN, asks \in BOOLEAN, clear \in BOOLEAN :
          LET asked == [session EXCEPT !.messages = Append(@, PgMessage("user", "question"))]
              llm == get_llm_chain(provider, env.secrets)
          IN  IF ~connects
              THEN UNCHANGED <<session, pc, call, log>>
              ELSE IF asks
              THEN /\ Len(session.messages) < MaxHistory
                   /\ session' = asked
                   /\ IF llm = NoRecord
                      THEN UNCHANGED <<pc, call, log>>
                      ELSE /\ log' = <<Called("pg")>>
                           /\ pc' = "sql_chain"
                           /\ call' = [llm |-> llm, query |-> <<>>, result |-> <<>>,
                                       stored |-> NoRecord]
              ELSE /\ session' = IF clear THEN [session EXCEPT !.messages = <<>>] ELSE session
                   /\ UNCHANGED <<pc, call, log>>
    /\ UNCHANGED <<app, env, rerun, validatorVars, sanitizerVars, tester>>

\* the rest of main() is skipped (return, or an exception caught at the end)
PgEnd(events) ==
    /\ log' = log \o events
    /\ pc' = "done"
    /\ UNCHANGED <<session, call>>

\* the rest of main() up to st.session_state.messages.append
PgStore(content, events) ==
    /\ call' = [call EXCEPT !.stored = content]
    /\ log' = log \o events
    /\ pc' = "done"
    /\ UNCHANGED session

\* sql_result.strip(), then the ';' appended when missing
PgCleanSql(sql_result) ==
    LET stripped == Strip(sql_result)
    IN  IF EndsWith(stripped, <<";">>) THEN stripped ELSE stripped \o <<";">>

\* main(): get_schema_info, sql_chain.invoke, the cleaning of the answer
PgSqlChain ==
    /\ app = "pg"
    /\ pc = "sql_chain"
    /\ \E schema_read \in BOOLEAN, answer \in {Raised} \cup {Text(q) : q \in LlmQueries} :
          LET asks == LlmCall("sql", call.llm,
                              [schema |-> get_schema_info(env.table_info, schema_read)])
          IN  IF answer = Raised THEN PgEnd(<<asks>>)
              ELSE IF Strip(answer.text) = <<>> THEN PgEnd(<<asks>>)
              ELSE /\ call' = [call EXCEPT !.query = PgCleanSql(answer.text)]
                   /\ log' = Append(log, asks)
                   /\ pc' = "validate"
                   /\ UNCHANGED session
    /\ UNCHANGED <<app, env, rerun, validatorVars, sanitizerVars, tester>>

\* main(): QueryValidator.is_safe_query(sql_result), then the query is displayed
PgValidate ==
    /\ app = "pg"
    /\ pc = "validate"
    /\ LET checked == pg_is_safe_query(call.query)
       IN  IF ~checked.safe THEN PgEnd(<<Validated(call.query, FALSE)>>)
           ELSE /\ log' = log \o <<Validated(call.query, TRUE), Shown("sql", call.query)>>
                /\ pc' = "run"
                /\ UNCHANGED <<session, call>>
    /\ UNCHANGED <<app, env, rerun, validatorVars, sanitizerVars, tester>>

\* main(): result = db_manager.db.run(sql_result), then sanitize_query_result
PgRun ==
    /\ app = "pg"
    /\ pc = "run"
    /\ \E outcome \in {Raised} \cup {Text(r) : r \in DbResults} :
          IF outcome = Raised
          THEN PgStore([kind |-> "error_executing"], <<DbRun(call.query, outcome)>>)
          ELSE /\ call' = [call EXCEPT !.result = PgResultTable[outcome.text]]
               /\ log' = Append(log, DbRun(call.query, outcome))
               /\ pc' = "respond"
               /\ UNCHANGED session
    /\ UNCHANGED <<app, env, rerun, validatorVars, sanitizerVars, tester>>

\* main(): response_chain.invoke, the display of results and response, the message stored
PgRespond ==
    /\ app = "pg"
    /\ pc = "respond"
    /\ \E answered \in BOOLEAN :
          LET asks == LlmCall("response", call.llm,
                              [query |-> call.query, result |-> Text(call.result)])
          IN  IF ~answered THEN PgStore([kind |-> "error_executing"], <<asks>>)
              ELSE PgStore([kind |-> "answer", sql |-> call.query, results |-> call.result],
                           <<asks, Shown("results", call.result), Shown("response", "answer")>>)
    /\ UNCHANGED <<app, env, rerun, validatorVars, sanitizerVars, tester>>

\* main(): st.session_state.messages.append({"role": "assistant", ...}); the run ends
PgFinish ==
    /\ app = "pg"
    /\ pc = "done"
    /\ session' = IF call.stored = NoRecord THEN session
                  ELSE [session EXCEPT !.messages = Append(@, PgMessage("assistant", call.stored))]
    /\ pc' = "idle"
    /\ call' = NoRecord
    /\ log' = <<>>
    /\ UNCHANGED <<app, env, rerun, validatorVars, sanitizerVars, tester>>

-----------------------------------------------------------------------------
(* The specification of the applications                                   *)

Init ==
    /\ app \in {"cloud", "hybrid", "pg"}
    /\ env \in [table_info : DbSchemas, secrets : SUBSET Providers]
    /\ app # "pg" => env.secrets = {}
    /\ session = CASE app = "cloud" -> CloudSessionInit
                   [] app = "hybrid" -> HybridSessionInit
                   [] app = "pg" -> PgSessionInit
    /\ pc = "idle"
    /\ call = NoRecord
    /\ rerun = NoRecord
    /\ log = <<>>
    /\ ValidatorsIdle
    /\ SanitizersIdle
    /\ TesterIdle

Next ==
    \/ CloudMain \/ CloudSqlChain \/ CloudAssignSchema \/ CloudExecuteQuerySafely
    \/ CloudRespond \/ CloudFinish
    \/ HybridMain \/ HybridSqlChain \/ HybridValidate \/ HybridRun \/ HybridRespond
    \/ HybridFinish
    \/ PgMain \/ PgSqlChain \/ PgValidate \/ PgRun \/ PgRespond \/ PgFinish

Spec == Init /\ [][Next]_vars

-----------------------------------------------------------------------------
(* test_db_connection.py: main() asks for the connection details, connects, *)
(* lists the tables and then reads queries until told to stop.  What the    *)
(* server answers and what the terminal hands to input() are drawn from     *)
(* small sets.                                                              *)

\* the query loop reads at most this many times
MaxReads == 3

txtQuit == <<"q","u","i","t">>
txtTables == <<"t","a","b","l","e","s">>
txtDescribeSp == <<"d","e","s","c","r","i","b","e"," ">>

\* what the user may type at the query prompt
TesterLines ==
    { <<"q","u","i","t">>,
      <<"Q","u","I","t">>,
      <<" ","Q","U","I","T"," ">>,
      <<"q","u","i","t",";">>,
      <<"t","a","b","l","e","s">>,
      <<"T","a","b","l","e","s"," ">>,
      <<"d","e","s","c","r","i","b","e"," ","t">>,
      <<"D","E","S","C","R","I","B","E"," "," ","u","s","e","r","s"," ">>,
      <<"d","e","s","c","r","i","b","e"," ">>,
      <<"s","e","l","e","c","t"," ","1">>,
      <<>>,
      <<" "," ">> }

\* what a statement sent through the cursor may do: answer, raise a
\* mysql.connector.Error, raise another Exception, or be cut by Ctrl-C
CursorOutcomes == {"ok", "error", "exception", "interrupt"}

\* main() before its first statement
TesterStarted ==
    [pc |-> "start", holds |-> FALSE, connection |-> "none", cursor |-> "none",
     connected |-> FALSE, tables |-> "unknown", reads |-> 0, read |-> "none",
     query |-> <<>>, did |-> <<>>, outcome |-> "none", reported |-> "nothing",
     interrupted |-> "nowhere"]

\* main(): the input lines and test_connection
TesterConnect ==
    /\ tester # NoRecord
    /\ tester.pc = "start"
    /\ \E outcome \in {"bad_port", "refused", "not_connected", "error_after_connect",
                       "connected"} :
          tester' =
            CASE outcome = "bad_port" ->
                     \* int(port) raises ValueError
                     [tester EXCEPT !.pc = "raised"]
              [] outcome = "refused" ->
                     \* mysql.connector.connect raises Error: (None, None)
                     [tester EXCEPT !.pc = "returned", !.reported = "cannot_proceed"]
              [] outcome = "not_connected" ->
                     \* is_connected() is False: (None, None)
                     [tester EXCEPT !.pc = "returned", !.connection = "open",
                                    !.reported = "cannot_proceed"]
              [] outcome = "error_after_connect" ->
                     \* get_server_info or "select database();" raises Error: (None, None)
                     [tester EXCEPT !.pc = "returned", !.connection = "open",
                                    !.connected = TRUE, !.reported = "cannot_proceed"]
              [] outcome = "connected" ->
                     [tester EXCEPT !.pc = "show_tables", !.holds = TRUE,
                                    !.connection = "open", !.cursor = "open",
                                    !.connected = TRUE]
    /\ UNCHANGED <<validatorVars, sanitizerVars, appVars>>

\* main(): tables = show_tables(cursor); if tables: ...
TesterShowTables ==
    /\ tester # NoRecord
    /\ tester.pc = "show_tables"
    /\ \E outcome \in CursorOutcomes, found \in BOOLEAN, lost \in BOOLEAN :
          tester' =
            CASE outcome = "ok" /\ found ->
                     [tester EXCEPT !.pc = "prompt", !.tables = "some", !.outcome = outcome,
                                    !.reported = "tables"]
              [] outcome = "ok" /\ ~found ->
                     [tester EXCEPT !.pc = "closing", !.tables = "none", !.outcome = outcome,
                                    !.reported = "tables"]
              [] outcome = "error" ->
                     \* show_tables catches it and returns []
                     [tester EXCEPT !.pc = "closing", !.tables = "none", !.outcome = outcome,
                                    !.reported = "function",
                                    !.connected = tester.connected /\ ~lost]
              [] outcome = "exception" ->
                     [tester EXCEPT !.pc = "raised", !.outcome = outcome]
              [] outcome = "interrupt" ->
                     [tester EXCEPT !.pc = "raised", !.outcome = outcome,
                                    !.interrupted = "show_tables"]
    /\ UNCHANGED <<validatorVars, sanitizerVars, appVars>>

\* a plausible slip: the tests are made on the text as typed
tester_dispatch_as_typed(query) ==
    IF query = txtQuit THEN << [op |-> "exit"] >>
    ELSE IF query = txtTables THEN << [op |-> "show_tables"] >>
    ELSE IF StartsWith(query, txtDescribeSp)
    THEN << [op |-> "describe_table", table_name |-> Strip(SubSeq(query, 10, Len(query)))] >>
    ELSE IF query # <<>> THEN << [op |-> "run_query", query |-> query] >>
    ELSE << [op |-> "notice"] >>

\* main(): the if / elif chain of the query loop: what is done with `query`
tester_dispatch(query) ==
    IF Lower(query) = txtQuit THEN << [op |-> "exit"] >>
    ELSE IF Lower(query) = txtTables THEN << [op |-> "show_tables"] >>
    ELSE IF StartsWith(Lower(query), txtDescribeSp)
    THEN << [op |-> "describe_table", table_name |-> Strip(SubSeq(query, 10, Len(query)))] >>
    ELSE IF query # <<>> THEN << [op |-> "run_query", query |-> query] >>
    ELSE << [op |-> "notice"] >>

\* main(): one turn of `while True:`
TesterQuery ==
    /\ tester # NoRecord
    /\ tester.pc = "prompt"
    /\ tester.reads < MaxReads
    /\ \E read \in {"line", "interrupt", "eof"} :
          LET turn == [tester EXCEPT !.reads = @ + 1, !.read = read, !.query = <<>>,
                                     !.did = <<>>, !.outcome = "none"]
          IN  CASE read = "interrupt" ->
                       \* Ctrl-C at the prompt: except KeyboardInterrupt, break
                       tester' = [turn EXCEPT !.pc = "closing", !.reported = "goodbye",
                                              !.interrupted = "loop"]
                [] read = "eof" ->
                       \* input() raises EOFError: except Exception
                       tester' = [turn EXCEPT !.reported = "main"]
                [] read = "line" ->
                       \E line \in TesterLines :
                          LET query == Strip(line)
                              ops == tester_dispatch(query)
                              asked == [turn EXCEPT !.query = query, !.did = ops]
                              uses_cursor == \E i \in 1..Len(ops) :
                                  ops[i].op \in {"show_tables", "describe_table", "run_query"}
                          IN  IF \E i \in 1..Len(ops) : ops[i].op = "exit"
                              THEN tester' = [asked EXCEPT !.pc = "closing"]
                              ELSE IF ~uses_cursor
                              THEN tester' = [asked EXCEPT !.reported = "notice"]
                              ELSE \E outcome \in CursorOutcomes, lost \in BOOLEAN :
                                 tester' =
                                   CASE outcome = "ok" ->
                                            [asked EXCEPT !.outcome = outcome,
                                                          !.reported = "results"]
                                     [] outcome = "error" ->
                                            \* caught by show_tables / describe_table / run_query
                                            [asked EXCEPT !.outcome = outcome,
                                                          !.reported = "function",
                                                          !.connected = tester.connected /\ ~lost]
                                     [] outcome = "exception" ->
                                            \* except Exception as e: print
                                            [asked EXCEPT !.outcome = outcome,
                                                          !.reported = "main"]
                                     [] outcome = "interrupt" ->
                                            [asked EXCEPT !.outcome = outcome,
                                                          !.pc = "closing",
                                                          !.reported = "goodbye",
                                                          !.interrupted = "loop"]
    /\ UNCHANGED <<validatorVars, sanitizerVars, appVars>>

\* a plausible slip: the connection is left to the garbage collector
tester_close_cursor_only(t) ==
    IF t.holds /\ t.connected
    THEN [t EXCEPT !.cursor = "closed", !.reported = "closed"]
    ELSE t

\* main(): "# Close connection"
tester_close(t) ==
    IF t.holds /\ t.connected
    THEN [t EXCEPT !.cursor = "closed", !.connection = "closed", !.reported = "closed"]
    ELSE t

\* main(): the end of the function
TesterClose ==
    /\ tester # NoRecord
    /\ tester.pc = "closing"
    /\ tester' = [tester_close(tester) EXCEPT !.pc = "returned"]
    /\ UNCHANGED <<validatorVars, sanitizerVars, appVars>>

InitTester ==
    /\ tester = TesterStarted
    /\ ValidatorsIdle
    /\ SanitizersIdle
    /\ AppIdle

NextTester == TesterConnect \/ TesterShowTables \/ TesterQuery \/ TesterClose

SpecTester == InitTester /\ [][NextTester]_vars

-----------------------------------------------------------------------------
(* Properties of the validators, checked under SpecValidators              *)

\* the seven verbs the cloud-only and local-model validators are said to reject
SevenVerbs ==
    { <<"D","R","O","P">>, <<"D","E","L","E","T","E">>, <<"T","R","U","N","C","A","T","E">>,
      <<"A","L","T","E","R">>, <<"C","R","E","A","T","E">>, <<"I","N","S","E","R","T">>,
      <<"U","P","D","A","T","E">> }

HasVerb(q) == LET upper == Upper(q) IN \E verb \in SevenVerbs : Contains(upper, verb)

\* C2: validate_sql of the cloud-only and local-model variants returns False
\* exactly when the upper-cased query contains one of DROP, DELETE, TRUNCATE,
\* ALTER, CREATE, INSERT, UPDATE as a substring at any position, and True for
\* every other query.
C2_ValidateSqlIsTheBlacklist ==
    verdict.by \in {"cloud", "local"} => (verdict.ok = ~HasVerb(sql))

\* A lower-case verb inside a string literal and a verb inside a longer
\* identifier are both rejected, and a query without any verb is accepted.
C2_Witness ==
    /\ verdict.by = "cloud"
    /\ verdict.ok = FALSE
    /\ sql = <<"'">> \o <<"d","e","l","e","t","e">> \o <<"'">>

\* the tables the hybrid validator lists as sensitive
HybridListedTables ==
    { <<"u","s","e","r","s">>, <<"p","a","s","s","w","o","r","d","s">>,
      <<"c","r","e","d","i","t","_","c","a","r","d","s">>, <<"s","s","n">>,
      <<"p","e","r","s","o","n","a","l","_","d","a","t","a">>,
      <<"c","u","s","t","o","m","e","r","s">>, <<"e","m","p","l","o","y","e","e","s">>,
      <<"p","a","t","i","e","n","t","s">>, <<"c","l","i","e","n","t","s">>,
      <<"a","c","c","o","u","n","t","s">> }

ReferencesListedTable(q) == \E table \in HybridListedTables : Contains(Lower(q), table)

\* C7: the hybrid validate_sql returns False for every query that references
\* a table of its sensitive_tables list, in any letter case.
C7_SensitiveTableQueryIsRejected ==
    (verdict.by = "hybrid" /\ ReferencesListedTable(sql)) => verdict.ok = FALSE

\* the ten verbs the PostgreSQL validator refuses
TenVerbs ==
    SevenVerbs \cup { <<"G","R","A","N","T">>, <<"R","E","V","O","K","E">>,
                      <<"E","X","E","C","U","T","E">> }

HasPgVerb(q) == LET upper == Upper(q) IN \E verb \in TenVerbs : Contains(upper, verb)

\* after some leading whitespace the query reads SELECT, in any letter case
SelectAfterTrim(q) ==
    \E n \in 0..Len(q) :
        /\ \A i \in 1..n : q[i] \in Whitespace
        /\ StartsWith(Upper(SubSeq(q, n + 1, Len(q))), kwSELECT)

\* C11: the PostgreSQL is_safe_query returns (True, ...) exactly when the
\* upper-cased query contains none of DROP, DELETE, UPDATE, INSERT, TRUNCATE,
\* ALTER, CREATE, GRANT, REVOKE, EXECUTE as a substring and, trimmed, starts
\* with SELECT; a query failing both tests is refused for its keyword.
C11_IsSafeQueryIsKeywordsThenSelect ==
    verdict.by = "pg" =>
        /\ verdict.ok = (~HasPgVerb(sql) /\ SelectAfterTrim(sql))
        /\ HasPgVerb(sql) => verdict.message.reason = "operation_not_allowed"
        /\ (~HasPgVerb(sql) /\ ~SelectAfterTrim(sql)) => verdict.message.reason = "only_select"

\* A query that fails both tests (a refused verb, no SELECT in front) is
\* refused with the keyword reason.
C11_Witness ==
    /\ verdict.by = "pg"
    /\ sql = <<" ">> \o <<"R","e","v","o","k","e">> \o <<"x">>
    /\ verdict.message.reason = "operation_not_allowed"
    /\ verdict.message.keyword = <<"R","E","V","O","K","E">>

\* A lower-case select behind leading whitespace is accepted.
C11_WitnessAccepted ==
    /\ verdict.by = "pg"
    /\ sql = <<" ">> \o <<"s","e","l","e","c","t"," ","1">>
    /\ verdict.ok = TRUE

-----------------------------------------------------------------------------
(* Properties of the schema sanitizers, checked under SpecSanitizers       *)

\* the name occurs in the text, in any letter case
ContainsAnyCase(text, name) == Contains(Lower(text), Lower(name))

\* C8: the text returned by the hybrid sanitize_schema contains no occurrence,
\* in any letter case, of a name in sensitive_tables or in sensitive_columns.
C8_HybridSchemaNamesNoSensitiveThing ==
    sanitized.by = "hybrid" =>
        /\ \A table \in Range(hybrid_sensitive_tables) : ~ContainsAnyCase(sanitized.out, table)
        /\ \A column \in Range(hybrid_sensitive_columns) : ~ContainsAnyCase(sanitized.out, column)

\* the five tables and five columns the cloud-only and local-model sanitizers list
ListedTables ==
    { <<"u","s","e","r","s">>, <<"p","a","s","s","w","o","r","d","s">>,
      <<"c","r","e","d","i","t","_","c","a","r","d","s">>, <<"s","s","n">>,
      <<"p","e","r","s","o","n","a","l","_","d","a","t","a">> }

ListedColumns ==
    { <<"p","a","s","s","w","o","r","d">>, <<"s","s","n">>,
      <<"c","r","e","d","i","t","_","c","a","r","d">>, <<"e","m","a","i","l">>,
      <<"p","h","o","n","e">> }

\* the text holds a CREATE TABLE statement that defines the table
DefinesTable(text, table) ==
    ReSearch(<< LitI(txtCreateTable), Cls(Whitespace, 1, Unbounded), OptChr(Backtick),
                LitI(table), WB >>, text)

\* the text holds the column name as a whole identifier
NamesColumn(text, column) == ReSearch(<< WB, LitI(column), WB >>, text)

\* C9: the text returned by sanitize_schema of the cloud-only and local-model
\* variants holds no CREATE TABLE definition of a table in sensitive_tables
\* and no column named in sensitive_columns.
C9_SchemaHoldsNoListedTableOrColumn ==
    sanitized.by \in {"cloud", "local"} =>
        /\ \A table \in ListedTables : ~DefinesTable(sanitized.out, table)
        /\ \A column \in ListedColumns : ~NamesColumn(sanitized.out, column)

\* C10: the text returned by the PostgreSQL sanitize_schema contains no listed
\* sensitive term in any letter case, and wherever the input held a term the
\* output holds [REDACTED] in its place.
C10_PgSchemaHoldsNoListedTerm ==
    sanitized.by = "pg" =>
        /\ \A term \in Range(pg_sensitive_patterns) : ~ContainsAnyCase(sanitized.out, term)
        /\ (\E term \in Range(pg_sensitive_patterns) : ContainsAnyCase(schema, term))
               => Contains(sanitized.out, txtRedacted)
        /\ (\A term \in Range(pg_sensitive_patterns) : ~ContainsAnyCase(schema, term))
               => sanitized.out = schema

\* A term in mixed case inside a longer identifier has been redacted.
C10_Witness ==
    /\ sanitized.by = "pg"
    /\ schema = <<"p","E","m","a","i","l","w","d">> \o <<"P","a","s","s","W","o","r","d"," ">>
    /\ sanitized.out = <<"p">> \o txtRedacted \o <<"w","d">> \o txtRedacted \o <<" ">>

-----------------------------------------------------------------------------
(* Properties of the applications, checked under Spec                      *)

\* the positions of the log that hold an event of the kind
EventsOf(kind) == {i \in DOMAIN log : log[i].e = kind}

\* the positions of the log that hold a call of an LLM for the purpose
LlmCallsFor(purpose) == {i \in EventsOf("llm") : log[i].purpose = purpose}

\* the verbs each variant is said to refuse
MoreHybridVerbs ==
    { <<"G","R","A","N","T">>, <<"R","E","V","O","K","E">>, <<"E","X","E","C">>,
      <<"E","X","E","C","U","T","E">>, <<"B","A","C","K","U","P">>,
      <<"R","E","S","T","O","R","E">> }

MorePgVerbs ==
    { <<"G","R","A","N","T">>, <<"R","E","V","O","K","E">>, <<"E","X","E","C","U","T","E">> }

RefusedVerbs ==
    CASE app = "cloud" -> SevenVerbs
      [] app = "hybrid" -> SevenVerbs \cup MoreHybridVerbs
      [] app = "pg" -> SevenVerbs \cup MorePgVerbs
      [] OTHER -> {}

\* the event at position i comes right after the validator accepted its query:
\* nothing but the display of the query lies between the two
JustValidated(i) ==
    \E j \in 1..(i - 1) :
       /\ log[j] = Validated(log[i].query, TRUE)
       /\ \A k \in (j + 1)..(i - 1) : log[k].e = "show"

\* C1: in the cloud-only, hybrid and PostgreSQL variants db.run is called only
\* with a query on which the variant's validator has just returned safe, and
\* so never with a query whose upper-cased text contains a refused verb.
C1_DbRunOnlyOnValidatedQuery ==
    \A i \in EventsOf("db_run") :
       /\ JustValidated(i)
       /\ \A verb \in RefusedVerbs : ~Contains(Upper(log[i].query), verb)

\* db.run has been called, in the PostgreSQL variant with the query the LLM
\* wrote, cleaned.
C1_Witness ==
    /\ app = "pg"
    /\ \E i \in EventsOf("db_run") :
          log[i].query = <<"S","E","L","E","C","T"," ","*"," ","F","R","O","M"," ","u","s","e","r","s",";">>

\* the order of the steps of one question in the cloud-only get_response, and
\* db.run called at most once
CloudStepsInOrder ==
    /\ \A v \in EventsOf("validate") : \E s \in LlmCallsFor("sql") : s < v
    /\ \A d \in EventsOf("db_run") : d > 1 /\ log[d - 1] = Validated(log[d].query, TRUE)
    /\ \A r \in LlmCallsFor("response") :
          /\ \E v \in EventsOf("validate") : v < r
          /\ \A d \in EventsOf("db_run") : d < r
          /\ r = Len(log)
    /\ Cardinality(LlmCallsFor("sql")) <= 1
    /\ Cardinality(EventsOf("validate")) <= 1
    /\ Cardinality(EventsOf("db_run")) <= 1

\* C3 as stated: for one question handled by the cloud-only get_response the
\* steps occur in the order SQL-generation LLM, validation, db.run (only if
\* valid), response LLM; the response LLM is called exactly once and db.run at
\* most once.
C3_ResponseLlmExactlyOnce ==
    app = "cloud" =>
        /\ CloudStepsInOrder
        /\ pc = "done" => Cardinality(LlmCallsFor("response")) = 1

\* C3, amended: the same order, db.run at most once, the response LLM at most
\* once, and exactly once when neither the SQL-generation chain nor the schema
\* retrieval raised.
C3_ResponseLlmOnceUnlessRaised ==
    app = "cloud" =>
        /\ CloudStepsInOrder
        /\ Cardinality(LlmCallsFor("response")) <= 1
        /\ (pc = "done" /\ EventsOf("validate") # {} /\ call.schema # Raised)
               => Cardinality(LlmCallsFor("response")) = 1

\* A question went through the four steps.
C3_Witness ==
    /\ app = "cloud"
    /\ pc = "done"
    /\ Len(log) = 5
    /\ log[2].e = "llm" /\ log[2].purpose = "sql"
    /\ log[3].e = "validate" /\ log[3].ok
    /\ log[4].e = "db_run"
    /\ log[5].e = "llm" /\ log[5].purpose = "response"

\* each variant's result sanitizer, tabulated over what db.run may return
SanitizedResults ==
    [cloud |-> [raw \in DbResults |-> cloud_sanitize_results(raw)],
     hybrid |-> [raw \in DbResults |-> hybrid_sanitize_results(raw)],
     pg |-> [raw \in DbResults |-> pg_sanitize_query_result(raw)]]

\* the variant's result sanitizer, applied to what db.run returned
SanitizedResult(raw) == SanitizedResults[app][raw]

\* the result text a response prompt carries
ResultInPrompt(prompt) ==
    CASE app = "cloud" -> prompt.response
      [] app = "hybrid" -> prompt.results
      [] app = "pg" -> prompt.result

\* C4: whenever db.run returned a result, the result text put into the response
\* prompt, and in the PostgreSQL variant displayed and stored in the chat
\* history, is the result sanitizer's output on it, never the raw result.
C4_OnlySanitizedResultLeaves ==
    \A d \in EventsOf("db_run") :
       log[d].outcome # Raised =>
          LET clean == SanitizedResult(log[d].outcome.text)
          IN  /\ \A r \in LlmCallsFor("response") : ResultInPrompt(log[r].prompt) = Text(clean)
              /\ \A i \in EventsOf("show") : log[i].what = "results" => log[i].content = clean
              /\ (app = "pg" /\ pc = "done" /\ call.stored # NoRecord /\ call.stored.kind = "answer")
                     => call.stored.results = clean

\* A result holding an e-mail address was returned, and the response prompt,
\* the display and the stored message hold it masked.
C4_Witness ==
    /\ app = "pg"
    /\ pc = "done"
    /\ \E d \in EventsOf("db_run") :
          log[d].outcome = Text(<<"[","(","1",","," ","'","a","@","b",".","c","o","'",")","]">>)
    /\ LlmCallsFor("response") # {}
    /\ call.stored # NoRecord
    /\ call.stored.kind = "answer"
    /\ call.stored.results = <<"[","(","1",","," ","'">> \o txtEmail \o <<"'",")","]">>

\* the hybrid sanitize_schema, tabulated over what db.get_table_info() may return
SanitizedSchemas == [table_info \in DbSchemas |-> hybrid_sanitize_schema(table_info)]

\* C5: in the hybrid application a prompt sent to a cloud LLM carries no schema
\* but the output of sanitize_schema, and the SQL-generation prompt sent to a
\* cloud LLM carries it; the table info as the database gives it goes only to
\* a local (Ollama) LLM, in every mode and after any mode switches.
C5_CloudLlmSeesSanitizedSchemaOnly ==
    app = "hybrid" =>
        \A i \in EventsOf("llm") :
           /\ (log[i].llm.kind # "ollama" /\ log[i].purpose = "sql")
                  => "schema" \in DOMAIN log[i].prompt
           /\ (log[i].llm.kind # "ollama" /\ "schema" \in DOMAIN log[i].prompt)
                  => log[i].prompt.schema = Text(SanitizedSchemas[env.table_info])

\* After the local and the cloud mode were both used, a cloud LLM is asked for
\* a query over a schema that sanitize_schema changed.
C5_Witness ==
    /\ app = "hybrid"
    /\ session.local_llm # NoRecord
    /\ session.cloud_llm # NoRecord
    /\ \E i \in LlmCallsFor("sql") :
          /\ IsCloudLlm(log[i].llm)
          /\ log[i].prompt.schema # Text(env.table_info)

\* C6: in the hybrid application's 'Hybrid (Local + Cloud)' mode the query is
\* generated by the local model and the response by the cloud model stored in
\* session_state.hybrid_models['cloud'].
C6_HybridModeRespondsWithCloudModel ==
    (app = "hybrid" /\ log # <<>> /\ log[1] = Called(ModeHybrid)) =>
        /\ \A i \in LlmCallsFor("sql") : log[i].llm = session.hybrid_models.local
        /\ \A i \in LlmCallsFor("response") : log[i].llm = session.hybrid_models.cloud

\* a run of the cloud-only script starts here
CloudRunStarts == app = "cloud" /\ pc = "idle"

\* the model loaded in the session is the one of the run's provider and model boxes
CachedForSelection(s, r) ==
    /\ s.current_llm # NoRecord
    /\ s.selected_model = r.selected_model
    /\ s.provider = r.provider

C12_Run ==
    CloudRunStarts =>
        /\ rerun'.create_llm # "not_called" =>
               (rerun'.api_key /\ ~CachedForSelection(session, rerun'))
        /\ CachedForSelection(session, rerun') =>
               (rerun'.create_llm = "not_called" /\ session'.current_llm = session.current_llm)
        /\ rerun'.create_llm # "built" =>
               /\ session'.current_llm = session.current_llm
               /\ session'.selected_model = session.selected_model
               /\ session'.provider = session.provider

\* C12: in the cloud-only script, a run calls create_llm only if an API key
\* is entered and no LLM is cached or the cached provider or model differs
\* from the selection; with an LLM cached for the selection no run builds
\* another; a failed construction leaves current_llm, selected_model and
\* provider as they were.
C12_LlmBuiltOnceAndCached == [][C12_Run]_vars

\* A run with an API key entered finds the LLM of its selection cached and
\* does not call create_llm.
C12_Witness ==
    /\ app = "cloud"
    /\ rerun # NoRecord
    /\ rerun.api_key
    /\ rerun.create_llm = "not_called"
    /\ CachedForSelection(session, rerun)

\* A construction failed while another model was cached, which stayed.
C12_WitnessFailed ==
    /\ app = "cloud"
    /\ rerun # NoRecord
    /\ rerun.create_llm = "failed"
    /\ session.current_llm # NoRecord
    /\ session.selected_model # rerun.selected_model

-----------------------------------------------------------------------------
(* Properties of the connection tester, checked under SpecTester           *)

\* test_connection has handed main a connection and a cursor
TesterConnected == tester # NoRecord /\ tester.holds

\* the user typed quit, in whatever letter case
TypedQuit == tester.read = "line" /\ Lower(tester.query) = txtQuit

\* C13: once test_connection has succeeded, main does not return without
\* closing the cursor and the connection when the connection is still
\* connected; 'quit' in any letter case, a KeyboardInterrupt inside the query
\* loop and an empty SHOW TABLES all lead to that closing.
C13_ReturnsOnlyAfterClosing ==
    TesterConnected =>
        /\ (tester.pc = "returned" /\ tester.connected) =>
               (tester.cursor = "closed" /\ tester.connection = "closed")
        /\ (TypedQuit \/ tester.interrupted = "loop" \/ tester.tables = "none") =>
               tester.pc \in {"closing", "returned"}
        /\ tester.pc \in {"show_tables", "prompt", "closing"} =>
               (tester.cursor = "open" /\ tester.connection = "open")

\* main has returned after a Ctrl-C in the query loop, both handles closed.
C13_Witness ==
    /\ TesterConnected
    /\ tester.pc = "returned"
    /\ tester.interrupted = "loop"
    /\ tester.connected
    /\ tester.cursor = "closed"
    /\ tester.connection = "closed"

\* main has returned after QuIt, both handles closed.
C13_WitnessQuit ==
    /\ TesterConnected
    /\ tester.pc = "returned"
    /\ tester.query = <<"Q","u","I","t">>
    /\ tester.connection = "closed"

\* main has returned after an empty SHOW TABLES, both handles closed.
C13_WitnessNoTables ==
    /\ TesterConnected
    /\ tester.pc = "returned"
    /\ tester.tables = "none"
    /\ tester.reads = 0
    /\ tester.connection = "closed"

\* what the query loop is to do with the text `q`, read off its description
Expected(q) ==
    IF Lower(q) = txtQuit THEN "exit"
    ELSE IF Lower(q) = txtTables THEN "show_tables"
    ELSE IF Len(q) > 9 /\ Lower(SubSeq(q, 1, 9)) = txtDescribeSp THEN "describe_table"
    ELSE IF q = <<>> THEN "notice"
    ELSE "run_query"

\* the query loop has been left
LoopLeft == tester.tables = "some" /\ tester.pc \in {"closing", "returned"}

\* C20: in the query loop an error while running a query, listing the tables
\* or describing a table (a mysql Error or any other Exception) is reported
\* and the loop goes on with the connection open; the loop ends only on
\* 'quit' (any letter case) or a KeyboardInterrupt; each line read goes to
\* exactly one of exit, show_tables, describe_table, run_query, the notice.
C20_LoopReportsErrorsAndDispatchesOnce ==
    (TesterConnected /\ tester.reads > 0) =>
        /\ tester.outcome \in {"error", "exception"} =>
               /\ tester.pc = "prompt"
               /\ tester.reported \in {"function", "main"}
               /\ tester.cursor = "open" /\ tester.connection = "open"
        /\ LoopLeft => (TypedQuit \/ tester.interrupted = "loop")
        /\ tester.read = "line" =>
               /\ Len(tester.did) = 1
               /\ tester.did[1].op = Expected(tester.query)
               /\ tester.did[1].op = "run_query" => tester.did[1].query = tester.query
               /\ tester.did[1].op = "describe_table" =>
                      /\ tester.did[1].table_name # <<>>
                      /\ EndsWith(tester.query, tester.did[1].table_name)

\* A query raised an Exception that is not a mysql Error; main reported it
\* and is back at the prompt.
C20_Witness ==
    /\ TesterConnected
    /\ tester.pc = "prompt"
    /\ tester.outcome = "exception"
    /\ tester.reported = "main"
    /\ tester.did = << [op |-> "run_query", query |-> <<"s","e","l","e","c","t"," ","1">>] >>

\* DESCRIBE in capitals with blanks around the name went to describe_table.
C20_WitnessDescribe ==
    /\ TesterConnected
    /\ tester.did = << [op |-> "describe_table", table_name |-> <<"u","s","e","r","s">>] >>
    /\ tester.outcome = "error"
    /\ tester.pc = "prompt"

-----------------------------------------------------------------------------
(* Properties of the cloud-only script's runs, checked under Spec          *)

\* get_response has just been called
CloudGetResponseCalled == app = "cloud" /\ pc = "sql_chain"

\* C14: whenever the cloud-only get_response is invoked for a question, the
\* LLM it is given, session_state.current_llm, is the one created for the
\* provider and model selected in the sidebar in that run (the model named
\* in the 'Processing with ...' spinner).
C14_AnswersWithSelectedModel ==
    CloudGetResponseCalled =>
        /\ call.llm = session.current_llm
        /\ call.llm.kind = rerun.provider
        /\ call.llm.model = rerun.selected_model

\* C16: the LLM given to the cloud-only get_response is configured with the
\* temperature the 'Temperature (Creativity)' slider shows in that run.
C16_AnswersWithSliderTemperature ==
    CloudGetResponseCalled => call.llm.temperature = rerun.temperature

\* the chat history of the cloud-only session, and what it is once set up
History == session.chat_history
SetUp(h) == IF h = <<>> THEN <<AIMessage("greeting")>> ELSE h
TheQuestion == HumanMessage("question")

\* db or current_llm is missing from the session
CannotAnswer == ~session.db \/ session.current_llm = NoRecord

\* an LLM or the database has been called for the question at hand
CalledOut == EventsOf("llm") # {} \/ EventsOf("db_run") # {}

\* get_response is at work, or has been, only with db and current_llm present
AnswersOnlyWithBoth ==
    (app = "cloud" /\ (pc # "idle" \/ CalledOut)) => ~CannotAnswer

C17_Run ==
    CloudRunStarts =>
        /\ AnswersOnlyWithBoth'
        /\ (rerun'.user_query = "question" /\ CannotAnswer') =>
               /\ History' = Append(SetUp(History), TheQuestion)
               /\ pc' = "idle"
               /\ ~CalledOut'

\* C17: the cloud-only get_response is invoked only in a run where
\* db and current_llm are both in session state; when either is missing the
\* question's HumanMessage is still appended, no AIMessage is, and no LLM or
\* database call is made.
C17_QuestionKeptWhenUnanswerable == [][C17_Run]_vars

\* A question was asked with no model loaded and no API key: it is in the
\* history, unanswered.
C17_Witness ==
    /\ app = "cloud"
    /\ pc = "idle"
    /\ rerun # NoRecord
    /\ rerun.user_query = "question"
    /\ rerun.create_llm = "not_called"
    /\ session.current_llm = NoRecord
    /\ History = <<AIMessage("greeting"), TheQuestion>>

\* h is the beginning of g
IsPrefix(h, g) == Len(h) <= Len(g) /\ SubSeq(g, 1, Len(h)) = h

\* what every step of the cloud-only script does to the chat history, the
\* handling of a submitted question left aside
HistoryOnlyGrows ==
    /\ IsPrefix(History, History')
    /\ History' # <<>> => History'[1] = AIMessage("greeting")
    /\ (CloudRunStarts /\ rerun'.user_query \in {"none", "blank"}) =>
           History' = SetUp(History)
    /\ (CloudRunStarts /\ rerun'.user_query = "unread") => History' = History
    /\ pc = "done" =>
           \E content \in {"answer", "sorry"} : History' = Append(History, AIMessage(content))
    /\ pc \notin {"idle", "done"} => History' = History
    /\ pc' = "sql_chain" => History'[Len(History')] = TheQuestion

C18_Step ==
    app = "cloud" =>
        /\ HistoryOnlyGrows
        /\ (CloudRunStarts /\ rerun'.user_query = "question") =>
               History' = Append(SetUp(History), TheQuestion)

\* C18: the cloud-only chat_history is append-only; it starts with
\* the greeting; a None, empty or blank question leaves it unchanged; any
\* other question appends exactly one HumanMessage, followed by at most one
\* AIMessage; get_response is handed a history that ends with the question.
C18_HistoryAppendOnly == [][C18_Step]_vars

\* A question has been answered: greeting, question, answer.
C18_Witness ==
    /\ app = "cloud"
    /\ pc = "idle"
    /\ History = <<AIMessage("greeting"), TheQuestion, AIMessage("answer")>>

\* the response LLM calls whose prompt carries `response`
ResponseCallsWith(response) ==
    {r \in LlmCallsFor("response") : log[r].prompt.response = response}

C19_Step ==
    app = "cloud" =>
        /\ pc' = "done" => call'.returned \in {"answer", "sorry"}
        /\ \A d \in EventsOf("db_run")' : log'[d].outcome = Raised =>
               /\ call'.response = [kind |-> "error_executing"]
               /\ (pc' = "done" /\ call'.schema # Raised) =>
                      ResponseCallsWith([kind |-> "error_executing"])' # {}
        /\ \A v \in EventsOf("validate")' : ~log'[v].ok =>
               /\ EventsOf("db_run")' = {}
               /\ call'.response = [kind |-> "error_dangerous"]
        /\ (pc' = "done" /\ LlmCallsFor("response")' = {}) => call'.returned = "sorry"
        /\ pc = "done" =>
               /\ pc' = "idle"
               /\ History' = Append(History, AIMessage(call.returned))

\* C19: the cloud-only get_response never raises: a db.run failure becomes
\* the text 'Error executing query: ...', still handed to the response LLM;
\* a rejected query becomes 'Error: Query contains potentially dangerous
\* operations' without db.run being called; any other exception makes it
\* return 'Sorry, I encountered an error: ...', and main appends what it
\* returned to chat_history as an AIMessage.
C19_GetResponseNeverRaises == [][C19_Step]_vars

\* db.run raised, the response LLM was still asked and answered.
C19_Witness ==
    /\ app = "cloud"
    /\ pc = "done"
    /\ \E d \in EventsOf("db_run") : log[d].outcome = Raised
    /\ ResponseCallsWith([kind |-> "error_executing"]) # {}
    /\ call.returned = "answer"

\* The SQL-generation call raised; the apology is in the history.
C19_WitnessSorry ==
    /\ app = "cloud"
    /\ pc = "idle"
    /\ History = <<AIMessage("greeting"), TheQuestion, AIMessage("sorry")>>

\* get_response_secure has just been called
HybridGetResponseCalled == app = "hybrid" /\ pc = "sql_chain"

\* C15: in the hybrid application the LLM that answers a question is the one
\* built for the model chosen in the selectors of the run's processing mode.
C15_AnswersWithModelOfTheSelectors ==
    HybridGetResponseCalled =>
        LET chosen == rerun.selection
        IN  CASE call.mode = ModeLocal ->
                     call.llm = Llm("ollama", chosen.selected_local)
              [] call.mode = ModeHybrid ->
                     /\ session.hybrid_models.local = Llm("ollama", chosen.selected_local)
                     /\ session.hybrid_models.cloud = Llm(chosen.provider, chosen.cloud_model)
              [] call.mode = ModeCloud ->
                     call.llm = Llm(chosen.provider, chosen.cloud_model)

====
